---- MODULE Spec2Model ----
(***************************************************************************)
(* A model of the Aurora engine's transaction pipeline                     *)
(* (engine/src/engine.rs): the key/value store behind the IO handle, the   *)
(* account accessors, gas prepay and refund, the EVM exit classification,  *)
(* the Apply sink, promise extraction from logs, and submit / call /       *)
(* deploy_code.                                                            *)
(*                                                                         *)
(* The EVM executor (SputnikVM) is an external library.  It is modelled as *)
(* an environment: a call returns one of a bounded set of outcomes (exit   *)
(* reason, used gas, state diff, logs).  What the environment is assumed   *)
(* to guarantee is written at ExecOutcomes.                                *)
(***************************************************************************)
EXTENDS Integers, Sequences, FiniteSets, TLC

VARIABLES kv, last

vars == <<kv, last>>

----------------------------------------------------------------------------
(* Bounds of the model.  Integer widths are scaled down so that overflow    *)
(* is reachable: u64 values range over 0..U64Max, U256 over 0..U256Max.     *)
U64Max == 2
U256Max == 15
MaxNonce == 2
MaxBal == 3
MaxGen == 1

None == -1
NoAddr == "none"
NoCode == <<-1>>

Addr == {"a1", "a2"}

Min(a, b) == IF a <= b THEN a ELSE b

----------------------------------------------------------------------------
(* Host IO: a flat key/value store.  Keys are tuples <<prefix, ...>>.       *)

io_has(io, key) == key \in DOMAIN io

io_write_storage(io, key, value) ==
    [k \in (DOMAIN io) \cup {key} |-> IF k = key THEN value ELSE io[k]]

io_remove_storage(io, key) ==
    [k \in (DOMAIN io) \ {key} |-> io[k]]

io_read_u256(io, key) == IF io_has(io, key) THEN io[key] ELSE None

address_to_key(prefix, address) == <<prefix, address>>

storage_to_key(address, key, generation) == <<"Storage", address, generation, key>>

----------------------------------------------------------------------------
(* U256 / Wei arithmetic *)

checked_mul(a, b) == IF a * b > U256Max THEN None ELSE a * b

checked_add(a, b) == IF a + b > U256Max THEN None ELSE a + b

checked_sub(a, b) == IF a < b THEN None ELSE a - b

saturating_add(a, b) == IF a + b > U256Max THEN U256Max ELSE a + b

----------------------------------------------------------------------------
(* Account accessors *)

set_code(io, address, code) == io_write_storage(io, address_to_key("Code", address), code)

remove_code(io, address) == io_remove_storage(io, address_to_key("Code", address))

get_code(io, address) ==
    IF io_has(io, address_to_key("Code", address))
    THEN io[address_to_key("Code", address)] ELSE <<>>

get_code_size(io, address) ==
    IF io_has(io, address_to_key("Code", address))
    THEN Len(io[address_to_key("Code", address)]) ELSE 0

set_nonce(io, address, nonce) == io_write_storage(io, address_to_key("Nonce", address), nonce)

remove_nonce(io, address) == io_remove_storage(io, address_to_key("Nonce", address))

get_nonce(io, address) ==
    LET r == io_read_u256(io, address_to_key("Nonce", address))
    IN IF r = None THEN 0 ELSE r

check_nonce(io, address, transaction_nonce) ==
    IF transaction_nonce # get_nonce(io, address) THEN "IncorrectNonce" ELSE "Ok"

\* increment_nonce without the write.
increment_nonce_noop(io, address) == io

increment_nonce(io, address) ==
    LET account_nonce == get_nonce(io, address)
        new_nonce == saturating_add(account_nonce, 1)
    IN set_nonce(io, address, new_nonce)

set_balance(io, address, balance) ==
    io_write_storage(io, address_to_key("Balance", address), balance)

get_balance(io, address) ==
    LET raw == io_read_u256(io, address_to_key("Balance", address))
    IN IF raw = None THEN 0 ELSE raw

\* Result: [ok, io]; ok = FALSE is BalanceOverflow, and nothing is written.
add_balance(io, address, amount) ==
    LET current_balance == get_balance(io, address)
        new_balance == checked_add(current_balance, amount)
    IN IF new_balance = None
       THEN [ok |-> FALSE, io |-> io]
       ELSE [ok |-> TRUE, io |-> set_balance(io, address, new_balance)]

\* The ETH connector's total supply of ETH on Aurora, kept in the same store.
EthSupplyKey == <<"EthConnector", "total_eth_supply_on_aurora">>

PanicKey == <<"PANIC", "unwrap">>

panicked(io) == io_has(io, PanicKey)

\* EthConnectorContract::internal_remove_eth(address, amount).unwrap():
\* debits the total supply, and aborts the invocation on underflow.
internal_remove_eth(io, amount) ==
    LET supply == IF io_has(io, EthSupplyKey) THEN io[EthSupplyKey] ELSE 0
        left == checked_sub(supply, amount)
    IN IF left = None
       THEN io_write_storage(io, PanicKey, 1)
       ELSE io_write_storage(io, EthSupplyKey, left)

remove_balance(io, address) ==
    LET balance == get_balance(io, address)
    IN io_remove_storage(internal_remove_eth(io, balance), address_to_key("Balance", address))

\* remove_storage leaving an entry that holds zero.
remove_storage_writing_zero(io, address, key, generation) ==
    io_write_storage(io, storage_to_key(address, key, generation), 0)

remove_storage(io, address, key, generation) ==
    io_remove_storage(io, storage_to_key(address, key, generation))

\* set_storage writing under generation 0 whatever the generation.
set_storage_first_generation(io, address, key, value, generation) ==
    io_write_storage(io, storage_to_key(address, key, 0), value)

set_storage(io, address, key, value, generation) ==
    io_write_storage(io, storage_to_key(address, key, generation), value)

get_storage(io, address, key, generation) ==
    IF io_has(io, storage_to_key(address, key, generation))
    THEN io[storage_to_key(address, key, generation)] ELSE 0

\* is_account_empty without the test of the nonce.
is_account_empty_ignoring_nonce(io, address) ==
    get_balance(io, address) = 0 /\ get_code_size(io, address) = 0

is_account_empty(io, address) ==
    LET balance == get_balance(io, address)
        nonce == get_nonce(io, address)
        code_len == get_code_size(io, address)
    IN balance = 0 /\ nonce = 0 /\ code_len = 0

set_generation(io, address, generation) ==
    io_write_storage(io, address_to_key("Generation", address), generation)

get_generation(io, address) ==
    IF io_has(io, address_to_key("Generation", address))
    THEN io[address_to_key("Generation", address)] ELSE 0

\* remove_all_storage writing the generation back as it was.
remove_all_storage_same_generation(io, address, generation) ==
    set_generation(io, address, generation)

remove_all_storage(io, address, generation) == set_generation(io, address, generation + 1)

\* remove_account leaving the generation as it is.
remove_account_keeping_generation(io, address, generation) ==
    remove_code(remove_balance(remove_nonce(io, address), address), address)

remove_account(io, address, generation) ==
    LET io1 == remove_nonce(io, address)
        io2 == remove_balance(io1, address)
        io3 == remove_code(io2, address)
    IN remove_all_storage(io3, address, generation)

----------------------------------------------------------------------------
(* Logs and promise extraction.  Address and H256 are newtypes over raw     *)
(* bytes: Address(x) is <<x>>, and .0 is [1].                               *)

Address(raw) == <<raw>>

H256(raw) == <<raw>>

ExitToNear_ADDRESS == Address("e9217bc70b7ed1f598ddd3199e80b093fa71124f")

ExitToEthereum_ADDRESS == Address("b0bd02f6a392af548bdf1cfaee5dfa0eefcc8eab")

\* impl From<Log> for ResultLog
ResultLog_from(log) ==
    LET topics == [i \in 1..Len(log.topics) |-> log.topics[i][1]]
    IN [address |-> log.address[1], topics |-> topics, data |-> log.data]

\* PromiseArgs::try_from_slice: borsh of enum PromiseArgs { Create(PromiseCreateArgs),
\* Callback { base, callback } }.  A PromiseCreateArgs is one abstract byte here.
PromiseArgs_try_from_slice(data) ==
    IF Len(data) = 2 /\ data[1] = 0
    THEN [ok |-> TRUE, variant |-> "Create", base |-> data[2], callback |-> None]
    ELSE IF Len(data) = 3 /\ data[1] = 1
    THEN [ok |-> TRUE, variant |-> "Callback", base |-> data[2], callback |-> data[3]]
    ELSE [ok |-> FALSE, variant |-> "Err", base |-> None, callback |-> None]

\* PromiseHandler: the handler is the sequence of calls made on it so far; the
\* host hands out PromiseIds in the order of the calls.
promise_create_call(handler, args) ==
    [handler |-> Append(handler, [call |-> "promise_create_call", base |-> None,
                                  args |-> args, id |-> Len(handler)]),
     id |-> Len(handler)]

promise_attach_callback(handler, base, args) ==
    [handler |-> Append(handler, [call |-> "promise_attach_callback", base |-> base,
                                  args |-> args, id |-> Len(handler)]),
     id |-> Len(handler)]

schedule_promise(handler, promise) == promise_create_call(handler, promise)

\* schedule_promise_callback attaching to the first promise of the handler.
schedule_promise_callback_first(handler, base_id, promise) ==
    promise_attach_callback(handler, 0, promise)

schedule_promise_callback(handler, base_id, promise) ==
    promise_attach_callback(handler, base_id, promise)

\* The closure without the test of the address.
filter_log_any_address(handler, log) ==
    IF log.topics = <<>>
    THEN LET promise == PromiseArgs_try_from_slice(log.data)
         IN IF promise.ok
            THEN IF promise.variant = "Create"
                 THEN [handler |-> schedule_promise(handler, promise.base).handler,
                       keep |-> FALSE, log |-> ResultLog_from(log)]
                 ELSE LET b == schedule_promise(handler, promise.base)
                      IN [handler |-> schedule_promise_callback(
                                          b.handler, b.id, promise.callback).handler,
                          keep |-> FALSE, log |-> ResultLog_from(log)]
            ELSE [handler |-> handler, keep |-> FALSE, log |-> ResultLog_from(log)]
    ELSE [handler |-> handler, keep |-> TRUE, log |-> ResultLog_from(log)]

\* The closure dropping every log of an exit address, with topics or without.
filter_log_drop_exit(handler, log) ==
    IF log.address = ExitToNear_ADDRESS \/ log.address = ExitToEthereum_ADDRESS
    THEN [handler |-> handler, keep |-> FALSE, log |-> ResultLog_from(log)]
    ELSE [handler |-> handler, keep |-> TRUE, log |-> ResultLog_from(log)]

\* The closure passing on an exit log without topics whose data does not decode.
filter_log_keep_undecodable(handler, log) ==
    IF log.address = ExitToNear_ADDRESS \/ log.address = ExitToEthereum_ADDRESS
    THEN IF log.topics = <<>>
         THEN LET promise == PromiseArgs_try_from_slice(log.data)
              IN IF promise.ok
                 THEN IF promise.variant = "Create"
                      THEN [handler |-> schedule_promise(handler, promise.base).handler,
                            keep |-> FALSE, log |-> ResultLog_from(log)]
                      ELSE LET b == schedule_promise(handler, promise.base)
                           IN [handler |-> schedule_promise_callback(
                                               b.handler, b.id, promise.callback).handler,
                               keep |-> FALSE, log |-> ResultLog_from(log)]
                 ELSE [handler |-> handler, keep |-> TRUE, log |-> ResultLog_from(log)]
         ELSE [handler |-> handler, keep |-> TRUE, log |-> ResultLog_from(log)]
    ELSE [handler |-> handler, keep |-> TRUE, log |-> ResultLog_from(log)]

\* The closure of filter_map: [handler, keep, log].
filter_log(handler, log) ==
    IF log.address = ExitToNear_ADDRESS \/ log.address = ExitToEthereum_ADDRESS
    THEN IF log.topics = <<>>
         THEN LET promise == PromiseArgs_try_from_slice(log.data)
              IN IF promise.ok
                 THEN IF promise.variant = "Create"
                      THEN [handler |-> schedule_promise(handler, promise.base).handler,
                            keep |-> FALSE, log |-> ResultLog_from(log)]
                      ELSE LET b == schedule_promise(handler, promise.base)
                           IN [handler |-> schedule_promise_callback(
                                               b.handler, b.id, promise.callback).handler,
                               keep |-> FALSE, log |-> ResultLog_from(log)]
                 ELSE [handler |-> handler, keep |-> FALSE, log |-> ResultLog_from(log)]
         ELSE [handler |-> handler, keep |-> TRUE, log |-> ResultLog_from(log)]
    ELSE [handler |-> handler, keep |-> TRUE, log |-> ResultLog_from(log)]

RECURSIVE filter_from(_, _, _, _)
filter_from(handler, logs, i, acc) ==
    IF i > Len(logs)
    THEN [handler |-> handler, logs |-> acc]
    ELSE LET r == filter_log(handler, logs[i])
         IN filter_from(r.handler, logs, i + 1,
                        IF r.keep THEN Append(acc, r.log) ELSE acc)

filter_promises_from_logs(handler, logs) == filter_from(handler, logs, 1, <<>>)

----------------------------------------------------------------------------
(* EVM exit classification *)

VERSION == 7

SubmitResult_new(status, gas_used, logs) ==
    [kind |-> "Ok", version |-> VERSION, status |-> status, err |-> "",
     gas_used |-> gas_used, logs |-> logs]

\* EngineError { kind, gas_used }; `status` names the EngineErrorKind and `err`
\* the ExitError / ExitFatal / GasPaymentError it wraps.
EngineError(kind, err, gas_used) ==
    [kind |-> "Err", version |-> 0, status |-> kind, err |-> err,
     gas_used |-> gas_used, logs |-> <<>>]

\* into_result with every ExitError an engine error.
into_result_strict(exit_reason) ==
    IF exit_reason.reason = "Succeed" THEN [ok |-> TRUE, status |-> "Succeed", err |-> ""]
    ELSE IF exit_reason.reason = "Revert" THEN [ok |-> TRUE, status |-> "Revert", err |-> ""]
    ELSE IF exit_reason.reason = "Error"
    THEN [ok |-> FALSE, status |-> "EvmError", err |-> exit_reason.err]
    ELSE [ok |-> FALSE, status |-> "EvmFatal", err |-> exit_reason.err]

into_result(exit_reason) ==
    IF exit_reason.reason = "Succeed" THEN [ok |-> TRUE, status |-> "Succeed", err |-> ""]
    ELSE IF exit_reason.reason = "Revert" THEN [ok |-> TRUE, status |-> "Revert", err |-> ""]
    ELSE IF exit_reason.reason = "Error" /\ exit_reason.err = "OutOfOffset"
    THEN [ok |-> TRUE, status |-> "OutOfOffset", err |-> ""]
    ELSE IF exit_reason.reason = "Error" /\ exit_reason.err = "OutOfFund"
    THEN [ok |-> TRUE, status |-> "OutOfFund", err |-> ""]
    ELSE IF exit_reason.reason = "Error" /\ exit_reason.err = "OutOfGas"
    THEN [ok |-> TRUE, status |-> "OutOfGas", err |-> ""]
    ELSE IF exit_reason.reason = "Error"
    THEN [ok |-> FALSE, status |-> "EvmError", err |-> exit_reason.err]
    ELSE [ok |-> FALSE, status |-> "EvmFatal", err |-> exit_reason.err]

----------------------------------------------------------------------------
(* ApplyBackend::apply *)

Modify(address, basic, code, storage, reset_storage) ==
    [type |-> "Modify", address |-> address, basic |-> basic, code |-> code,
     storage |-> storage, reset_storage |-> reset_storage]

Delete(address) ==
    [type |-> "Delete", address |-> address, basic |-> [nonce |-> 0, balance |-> 0],
     code |-> NoCode, storage |-> <<>>, reset_storage |-> FALSE]

RECURSIVE apply_storage(_, _, _, _, _)
apply_storage(io, address, storage, i, next_generation) ==
    IF i > Len(storage) THEN io
    ELSE LET index == storage[i][1]
             value == storage[i][2]
             io1 == IF value = 0
                    THEN remove_storage(io, address, index, next_generation)
                    ELSE set_storage(io, address, index, value, next_generation)
         IN apply_storage(io1, address, storage, i + 1, next_generation)

\* apply of a Modify entry removing an empty account whatever delete_empty is.
apply_modify_ignoring_delete_empty(io, a, delete_empty) ==
    LET address == a.address
        generation == get_generation(io, address)
        io1 == set_nonce(io, address, a.basic.nonce)
        io2 == set_balance(io1, address, a.basic.balance)
        io3 == IF a.code # NoCode THEN set_code(io2, address, a.code) ELSE io2
        io4 == IF a.reset_storage THEN remove_all_storage(io3, address, generation) ELSE io3
        next_generation == IF a.reset_storage THEN generation + 1 ELSE generation
        io5 == apply_storage(io4, address, a.storage, 1, next_generation)
    IN IF is_account_empty(io5, address) /\ generation = next_generation
       THEN remove_account(io5, address, generation)
       ELSE io5

apply_modify(io, a, delete_empty) ==
    LET address == a.address
        generation == get_generation(io, address)
        io1 == set_nonce(io, address, a.basic.nonce)
        io2 == set_balance(io1, address, a.basic.balance)
        io3 == IF a.code # NoCode THEN set_code(io2, address, a.code) ELSE io2
        io4 == IF a.reset_storage THEN remove_all_storage(io3, address, generation) ELSE io3
        next_generation == IF a.reset_storage THEN generation + 1 ELSE generation
        io5 == apply_storage(io4, address, a.storage, 1, next_generation)
    IN IF delete_empty /\ is_account_empty(io5, address) /\ generation = next_generation
       THEN remove_account(io5, address, generation)
       ELSE io5

\* apply of a Delete entry starting the account's generations again at zero.
apply_delete_restarting_generation(io, a) ==
    set_generation(remove_code(remove_balance(remove_nonce(io, a.address), a.address),
                               a.address),
                   a.address, 0)

apply_delete(io, a) ==
    LET generation == get_generation(io, a.address)
    IN remove_account(io, a.address, generation)

RECURSIVE apply_from(_, _, _, _)
apply_from(io, values, i, delete_empty) ==
    IF i > Len(values) THEN io
    ELSE apply_from(IF values[i].type = "Modify"
                    THEN apply_modify(io, values[i], delete_empty)
                    ELSE apply_delete(io, values[i]),
                    values, i + 1, delete_empty)

apply(io, values, delete_empty) == apply_from(io, values, 1, delete_empty)

----------------------------------------------------------------------------
(* Gas prepay and refund *)

block_base_fee_per_gas == 0

GasPaymentResult_default ==
    [prepaid_amount |-> 0, effective_gas_price |-> 0, priority_fee_per_gas |-> 0]

\* charge_gas with a saturating subtraction of the prepaid amount.
charge_gas_saturating(io, sender, transaction) ==
    IF transaction.max_fee_per_gas = 0
    THEN [ok |-> TRUE, err |-> "", io |-> io, gas_result |-> GasPaymentResult_default]
    ELSE
    LET priority_fee_per_gas ==
            Min(transaction.max_priority_fee_per_gas,
                transaction.max_fee_per_gas - block_base_fee_per_gas)
        effective_gas_price == priority_fee_per_gas + block_base_fee_per_gas
        prepaid_amount == checked_mul(transaction.gas_limit, effective_gas_price)
    IN IF prepaid_amount = None
       THEN [ok |-> FALSE, err |-> "EthAmountOverflow", io |-> io,
             gas_result |-> GasPaymentResult_default]
       ELSE [ok |-> TRUE, err |-> "",
             io |-> set_balance(io, sender,
                                IF get_balance(io, sender) < prepaid_amount THEN 0
                                ELSE get_balance(io, sender) - prepaid_amount),
             gas_result |-> [prepaid_amount |-> prepaid_amount,
                             effective_gas_price |-> effective_gas_price,
                             priority_fee_per_gas |-> priority_fee_per_gas]]

\* Result: [ok, err, io, gas_result]; err is the GasPaymentError.
charge_gas(io, sender, transaction) ==
    IF transaction.max_fee_per_gas = 0
    THEN [ok |-> TRUE, err |-> "", io |-> io, gas_result |-> GasPaymentResult_default]
    ELSE
    LET priority_fee_per_gas ==
            Min(transaction.max_priority_fee_per_gas,
                transaction.max_fee_per_gas - block_base_fee_per_gas)
        effective_gas_price == priority_fee_per_gas + block_base_fee_per_gas
        gas_limit == transaction.gas_limit
        prepaid_amount == checked_mul(gas_limit, effective_gas_price)
        new_balance == checked_sub(get_balance(io, sender), prepaid_amount)
    IN IF prepaid_amount = None
       THEN [ok |-> FALSE, err |-> "EthAmountOverflow", io |-> io,
             gas_result |-> GasPaymentResult_default]
       ELSE IF new_balance = None
       THEN [ok |-> FALSE, err |-> "OutOfFund", io |-> io,
             gas_result |-> GasPaymentResult_default]
       ELSE [ok |-> TRUE, err |-> "", io |-> set_balance(io, sender, new_balance),
             gas_result |-> [prepaid_amount |-> prepaid_amount,
                             effective_gas_price |-> effective_gas_price,
                             priority_fee_per_gas |-> priority_fee_per_gas]]

\* refund_unused_gas giving the whole prepaid amount back to the sender.
refund_unused_gas_whole(io, sender, gas_used, gas_result, relayer) ==
    IF gas_result.effective_gas_price = 0
    THEN [ok |-> TRUE, err |-> "", io |-> io]
    ELSE LET r1 == add_balance(io, sender, gas_result.prepaid_amount)
         IN IF ~r1.ok THEN [ok |-> FALSE, err |-> "BalanceOverflow", io |-> io]
            ELSE [ok |-> TRUE, err |-> "", io |-> r1.io]

\* refund_unused_gas without the relayer's reward.
refund_unused_gas_noreward(io, sender, gas_used, gas_result, relayer) ==
    IF gas_result.effective_gas_price = 0
    THEN [ok |-> TRUE, err |-> "", io |-> io]
    ELSE LET spent_amount == checked_mul(gas_used, gas_result.effective_gas_price)
             refund == checked_sub(gas_result.prepaid_amount, spent_amount)
         IN IF spent_amount = None \/ refund = None
            THEN [ok |-> FALSE, err |-> "EthAmountOverflow", io |-> io]
            ELSE LET r1 == add_balance(io, sender, refund)
                 IN IF ~r1.ok THEN [ok |-> FALSE, err |-> "BalanceOverflow", io |-> io]
                    ELSE [ok |-> TRUE, err |-> "", io |-> r1.io]

\* Result: [ok, err, io].
refund_unused_gas(io, sender, gas_used, gas_result, relayer) ==
    IF gas_result.effective_gas_price = 0
    THEN [ok |-> TRUE, err |-> "", io |-> io]
    ELSE
    LET spent_amount == checked_mul(gas_used, gas_result.effective_gas_price)
        reward_amount == checked_mul(gas_used, gas_result.priority_fee_per_gas)
        refund == checked_sub(gas_result.prepaid_amount, spent_amount)
    IN IF spent_amount = None \/ reward_amount = None \/ refund = None
       THEN [ok |-> FALSE, err |-> "EthAmountOverflow", io |-> io]
       ELSE LET r1 == add_balance(io, sender, refund)
                r2 == add_balance(r1.io, relayer, reward_amount)
            IN IF ~r1.ok THEN [ok |-> FALSE, err |-> "BalanceOverflow", io |-> io]
               ELSE IF ~r2.ok THEN [ok |-> FALSE, err |-> "BalanceOverflow", io |-> r1.io]
               ELSE [ok |-> TRUE, err |-> "", io |-> r2.io]

----------------------------------------------------------------------------
(* Engine::call and Engine::deploy_code.  `out` is what the executor        *)
(* returned: [exit_reason, used_gas, values, logs].                         *)
(* Result: [io, result, handler, applied].                                  *)

\* call applying the state diff before the logs are filtered.
call_apply_first(io, handler, origin, out) ==
    LET used_gas == out.used_gas
        status == into_result(out.exit_reason)
    IN IF ~status.ok
       THEN [io |-> increment_nonce(io, origin),
             result |-> EngineError(status.status, status.err, used_gas),
             handler |-> handler, applied |-> FALSE, io_filtered |-> io]
       ELSE LET io1 == apply(io, out.values, TRUE)
                f == filter_promises_from_logs(handler, out.logs)
            IN [io |-> io1,
                result |-> SubmitResult_new(status.status, used_gas, f.logs),
                handler |-> f.handler, applied |-> TRUE, io_filtered |-> io1]

\* io_filtered is the store at the time filter_promises_from_logs calls the handler.
call(io, handler, origin, out) ==
    LET used_gas == out.used_gas
        status == into_result(out.exit_reason)
    IN IF ~status.ok
       THEN [io |-> increment_nonce(io, origin),
             result |-> EngineError(status.status, status.err, used_gas),
             handler |-> handler, applied |-> FALSE, io_filtered |-> io]
       ELSE LET f == filter_promises_from_logs(handler, out.logs)
                io1 == apply(io, out.values, TRUE)
            IN [io |-> io1,
                result |-> SubmitResult_new(status.status, used_gas, f.logs),
                handler |-> f.handler, applied |-> TRUE, io_filtered |-> io]

deploy_code(io, handler, origin, out) ==
    LET used_gas == out.used_gas
        status == into_result(out.exit_reason)
    IN IF ~status.ok
       THEN [io |-> increment_nonce(io, origin),
             result |-> EngineError(status.status, status.err, used_gas),
             handler |-> handler, applied |-> FALSE, io_filtered |-> io]
       ELSE LET f == filter_promises_from_logs(handler, out.logs)
                io1 == apply(io, out.values, TRUE)
            IN [io |-> io1,
                result |-> SubmitResult_new(status.status, used_gas, f.logs),
                handler |-> f.handler, applied |-> TRUE, io_filtered |-> io]

\* view doing to the store and the handler what call does.
view_like_call(io, origin, out) ==
    [io |-> call(io, <<>>, origin, out).io,
     result |-> call(io, <<>>, origin, out).result,
     handler |-> call(io, <<>>, origin, out).handler,
     applied |-> call(io, <<>>, origin, out).applied]

\* Engine::view, on &self: the executor runs and its exit reason is classified;
\* its state is dropped.  Result: [io, result, handler, applied].
view(io, origin, out) ==
    LET status == into_result(out.exit_reason)
    IN IF ~status.ok
       THEN [io |-> io, result |-> EngineError(status.status, status.err, 0),
             handler |-> <<>>, applied |-> FALSE]
       ELSE [io |-> io, result |-> SubmitResult_new(status.status, 0, <<>>),
             handler |-> <<>>, applied |-> FALSE]

----------------------------------------------------------------------------
(* The EVM executor, as an environment.  transact_call / transact_create    *)
(* followed by used_gas() and into_state().deconstruct() yield one of       *)
(* ExecOutcomes.  Assumed of the executor:                                  *)
(*   - used_gas never exceeds the gas limit it was given;                   *)
(*   - the caller's nonce is incremented by one in the state diff, and the  *)
(*     diff never lowers a nonce;                                           *)
(*   - Modify entries move value between accounts without creating any;     *)
(*   - only a successful execution carries logs and changes other accounts. *)

ExitReason(reason, err) == [reason |-> reason, err |-> err]

ErrorExits == {ExitReason("Error", "StackUnderflow"), ExitReason("Fatal", "NotSupported")}

StatusExits == {ExitReason("Revert", ""), ExitReason("Error", "OutOfOffset"),
                ExitReason("Error", "OutOfFund"), ExitReason("Error", "OutOfGas")}

Log(address, topics, data) == [address |-> address, topics |-> topics, data |-> data]

\* The logs an execution may emit in the engine specifications.
ExecLogs ==
    {Log(ExitToNear_ADDRESS, <<>>, <<0, 1>>),
     Log(ExitToEthereum_ADDRESS, <<H256(7)>>, <<5>>),
     Log(Address("a2"), <<>>, <<0, 1>>)}

CallerEntry(io, caller, v) ==
    Modify(caller,
           [nonce |-> get_nonce(io, caller) + 1, balance |-> get_balance(io, caller) - v],
           NoCode, <<>>, FALSE)

\* What a successful execution may do to the other account, receiving value v.
OtherEntries(io, other, v) ==
    {Modify(other, [nonce |-> get_nonce(io, other), balance |-> get_balance(io, other) + v],
            NoCode, <<>>, FALSE)}
    \cup
    {Modify(other,
            [nonce |-> IF get_nonce(io, other) = 0 THEN 1 ELSE get_nonce(io, other),
             balance |-> get_balance(io, other) + v],
            <<1>>, <<<<0, 1>>>>, reset) : reset \in BOOLEAN}
    \cup
    (IF v = 0 THEN {Delete(other)} ELSE {})

SentValues(io, caller) == 0..Min(1, get_balance(io, caller))

\* The executor spends at least the intrinsic gas of the transaction.
UsedGas(gas_limit) == 1..gas_limit

ExecOutcomes(io, caller, other, gas_limit) ==
    LET nop == <<CallerEntry(io, caller, 0)>>
    IN
    [exit_reason : ErrorExits, used_gas : UsedGas(gas_limit), values : {<<>>}, logs : {<<>>}]
    \cup
    [exit_reason : StatusExits, used_gas : UsedGas(gas_limit), values : {nop}, logs : {<<>>}]
    \cup
    [exit_reason : {ExitReason("Succeed", "")}, used_gas : UsedGas(gas_limit),
     values : {nop}, logs : {<<>>} \cup {<<l>> : l \in ExecLogs}]
    \cup
    [exit_reason : {ExitReason("Succeed", "")}, used_gas : UsedGas(gas_limit),
     values : UNION {{<<CallerEntry(io, caller, v), e>> : e \in OtherEntries(io, other, v)} :
                     v \in SentValues(io, caller)},
     logs : {<<>>}]

NoOutcome ==
    [exit_reason |-> ExitReason("None", ""), used_gas |-> 0, values |-> <<>>, logs |-> <<>>]

----------------------------------------------------------------------------
(* Transactions *)

EngineChainId == 1

MaxPrice == 2

Transaction(wellformed, nonce, gas_limit, max_fee, max_priority, to, chain_id, address, data_len) ==
    [wellformed |-> wellformed, nonce |-> nonce, gas_limit |-> gas_limit,
     max_fee_per_gas |-> max_fee, max_priority_fee_per_gas |-> max_priority,
     to |-> to, chain_id |-> chain_id, address |-> address, data_len |-> data_len]

Malformed == Transaction(FALSE, 0, 0, 0, 0, NoAddr, None, NoAddr, 0)

\* The transactions submitted: every combination of the fields the validation
\* steps read, around a transaction that pays no fee; and every combination of
\* the gas fields on a transaction that passes validation when its nonce fits.
ValidationCases ==
    {Transaction(TRUE, n, g, 0, p, "a2", c, a, d) :
        n \in 0..MaxNonce, g \in {0, 1}, p \in {0, 1},
        c \in {None, EngineChainId, EngineChainId + 1},
        a \in {NoAddr, "a1"}, d \in {0, U64Max}}

GasLimits == {1, U64Max, U64Max + 1, U256Max}

GasCases ==
    {Transaction(TRUE, n, g, f, p, to, EngineChainId, "a1", 0) :
        n \in 0..MaxNonce, g \in GasLimits, f \in 1..MaxPrice, p \in 0..MaxPrice,
        to \in {NoAddr, "a2"}}

TransactionBytes == {Malformed} \cup ValidationCases \cup GasCases

\* EthTransactionKind::try_from(bytes) followed by .into():
\* [ok, transaction], ok = FALSE being a ParseTransactionError.
EthTransactionKind_try_from(transaction_bytes) ==
    IF transaction_bytes.wellformed
    THEN [ok |-> TRUE, transaction |-> transaction_bytes]
    ELSE [ok |-> FALSE, transaction |-> Malformed]

\* NormalizedEthTransaction::intrinsic_gas: the base cost plus the cost of the
\* payload, in checked u64 arithmetic; None on overflow.
TxBaseGas == 1

intrinsic_gas(transaction) ==
    LET gas == TxBaseGas + transaction.data_len
    IN IF gas > U64Max THEN None ELSE gas

----------------------------------------------------------------------------
(* submit.  Result: [io, result, handler, ran_evm, applied, gas_result,     *)
(* io_charged, io_executed], the last two being the store right after gas   *)
(* prepay and right before the refund.                                      *)

SubmitReturn(io, result, handler, ran_evm, applied, gas_result, io_charged, io_executed) ==
    [io |-> io, result |-> result, handler |-> handler, ran_evm |-> ran_evm,
     applied |-> applied, gas_result |-> gas_result,
     io_charged |-> io_charged, io_executed |-> io_executed]

SubmitFail(io, kind) ==
    SubmitReturn(io, EngineError(kind, "", 0), <<>>, FALSE, FALSE,
                 GasPaymentResult_default, io, io)

\* The tail of submit: the refund is given, and its error replaces the result.
submit_refund(r, refund, gas_result, io_charged) ==
    IF ~refund.ok
    THEN SubmitReturn(refund.io, EngineError("GasPayment", refund.err, r.result.gas_used),
                      r.handler, TRUE, r.applied, gas_result, io_charged, r.io)
    ELSE SubmitReturn(refund.io, r.result, r.handler, TRUE, r.applied, gas_result,
                      io_charged, r.io)

\* submit giving the refund on the store as it was before the diff was applied.
submit_give_refund_before_apply(r, sender, gas_result, relayer_address, io_charged) ==
    submit_refund(r,
                  refund_unused_gas(io_charged, sender, r.result.gas_used, gas_result,
                                    relayer_address),
                  gas_result, io_charged)

submit_give_refund(r, sender, gas_result, relayer_address, io_charged) ==
    submit_refund(r,
                  refund_unused_gas(r.io, sender, r.result.gas_used, gas_result,
                                    relayer_address),
                  gas_result, io_charged)

\* submit from the conversion of the gas limit to u64 on; io is the store after
\* gas prepay.
submit_execute(io, transaction, sender, gas_result, relayer_address, handler, out) ==
    IF transaction.gas_limit > U64Max
    THEN SubmitReturn(io, EngineError("GasOverflow", "", 0), handler, FALSE, FALSE,
                      gas_result, io, io)
    ELSE IF transaction.to # NoAddr
    THEN submit_give_refund(call(io, handler, sender, out),
                            sender, gas_result, relayer_address, io)
    ELSE submit_give_refund(deploy_code(io, handler, sender, out),
                            sender, gas_result, relayer_address, io)

\* The checks of submit with the nonce checked before the chain id.
submit_validate_nonce_first(io, transaction_bytes, state_chain_id) ==
    LET parsed == EthTransactionKind_try_from(transaction_bytes)
        transaction == parsed.transaction
        sender == transaction.address
        intrinsic == intrinsic_gas(transaction)
    IN IF ~parsed.ok THEN "FailedTransactionParse"
       ELSE IF sender # NoAddr /\ check_nonce(io, sender, transaction.nonce) # "Ok"
       THEN "IncorrectNonce"
       ELSE IF transaction.chain_id # None /\ transaction.chain_id # state_chain_id
       THEN "InvalidChainId"
       ELSE IF sender = NoAddr THEN "InvalidSignature"
       ELSE IF intrinsic = None THEN "GasOverflow"
       ELSE IF transaction.gas_limit < intrinsic THEN "IntrinsicGasNotMet"
       ELSE IF transaction.max_priority_fee_per_gas > transaction.max_fee_per_gas
       THEN "MaxPriorityGasFeeTooLarge"
       ELSE "Ok"

\* Steps 1-6 of submit: the first check that fails, or "Ok".
submit_validate(io, transaction_bytes, state_chain_id) ==
    LET parsed == EthTransactionKind_try_from(transaction_bytes)
        transaction == parsed.transaction
        sender == transaction.address
        intrinsic == intrinsic_gas(transaction)
    IN IF ~parsed.ok THEN "FailedTransactionParse"
       ELSE IF transaction.chain_id # None /\ transaction.chain_id # state_chain_id
       THEN "InvalidChainId"
       ELSE IF sender = NoAddr THEN "InvalidSignature"
       ELSE IF check_nonce(io, sender, transaction.nonce) # "Ok" THEN "IncorrectNonce"
       ELSE IF intrinsic = None THEN "GasOverflow"
       ELSE IF transaction.gas_limit < intrinsic THEN "IntrinsicGasNotMet"
       ELSE IF transaction.max_priority_fee_per_gas > transaction.max_fee_per_gas
       THEN "MaxPriorityGasFeeTooLarge"
       ELSE "Ok"

\* submit from gas prepay on; charged is what charge_gas returned.
submit_prepay(io, transaction, sender, charged, relayer_address, handler, out) ==
    IF ~charged.ok /\ charged.err = "OutOfFund"
    THEN SubmitReturn(increment_nonce(io, sender), SubmitResult_new("OutOfFund", 0, <<>>),
                      handler, FALSE, FALSE, GasPaymentResult_default, io, io)
    ELSE IF ~charged.ok
    THEN SubmitReturn(io, EngineError("GasPayment", charged.err, 0), handler, FALSE,
                      FALSE, GasPaymentResult_default, io, io)
    ELSE submit_execute(charged.io, transaction, sender, charged.gas_result,
                        relayer_address, handler, out)

submit_validated(io, transaction, validation, relayer_address, handler, out) ==
    IF validation # "Ok"
    THEN SubmitFail(io, validation)
    ELSE submit_prepay(io, transaction, transaction.address,
                       charge_gas(io, transaction.address, transaction),
                       relayer_address, handler, out)

submit(io, transaction_bytes, state_chain_id, relayer_address, handler, out) ==
    submit_validated(io, EthTransactionKind_try_from(transaction_bytes).transaction,
                     submit_validate(io, transaction_bytes, state_chain_id),
                     relayer_address, handler, out)

\* Whether submit gets as far as running the executor.
submit_reaches_evm(io, transaction_bytes, state_chain_id) ==
    /\ submit_validate(io, transaction_bytes, state_chain_id) = "Ok"
    /\ charge_gas(io, transaction_bytes.address, transaction_bytes).ok
    /\ transaction_bytes.gas_limit <= U64Max

submit_outcomes(io, transaction_bytes, state_chain_id) ==
    IF submit_reaches_evm(io, transaction_bytes, state_chain_id)
    THEN ExecOutcomes(charge_gas(io, transaction_bytes.address, transaction_bytes).io,
                      transaction_bytes.address, "a2",
                      transaction_bytes.gas_limit)
    ELSE {NoOutcome}

----------------------------------------------------------------------------
(* The state machine *)

Bounded(io) ==
    \A a \in Addr : get_nonce(io, a) <= MaxNonce /\ get_generation(io, a) <= MaxGen

InitStore(b) ==
    IF b = 0 THEN (EthSupplyKey :> 0)
    ELSE (EthSupplyKey :> b) @@ (address_to_key("Balance", "a1") :> b)

Last(op, input, relayer, origin, out, pre, r) ==
    [op |-> op, input |-> input, relayer |-> relayer, origin |-> origin, out |-> out,
     pre |-> pre, result |-> r.result, handler |-> r.handler, ran_evm |-> r.ran_evm,
     applied |-> r.applied, gas_result |-> r.gas_result,
     io_charged |-> r.io_charged, io_executed |-> r.io_executed]

\* Between two invocations nothing of the last one is kept but the store.
Idle == Last("idle", Malformed, NoAddr, NoAddr, NoOutcome, <<>>, SubmitFail(<<>>, "None"))

Init ==
    /\ kv \in {InitStore(b) : b \in 0..MaxBal}
    /\ last = Idle

\* One invocation: r is what the operation returned on the store kv.
Invoke(op, input, relayer, origin, out, r) ==
    /\ Bounded(r.io)
    /\ ~panicked(r.io)
    /\ kv' = r.io
    /\ last' = Last(op, input, relayer, origin, out, kv, r)

Submit ==
    /\ last.op = "idle"
    /\ \E transaction_bytes \in TransactionBytes, relayer_address \in Addr :
        \E out \in submit_outcomes(kv, transaction_bytes, EngineChainId) :
          Invoke("submit", transaction_bytes, relayer_address, transaction_bytes.address, out,
                 submit(kv, transaction_bytes, EngineChainId, relayer_address, <<>>, out))

EngineReturn(pre, r) ==
    SubmitReturn(r.io, r.result, r.handler, TRUE, r.applied, GasPaymentResult_default,
                 pre, r.io)

\* Engine::call_with_args: a call from the engine's origin with gas limit u64::MAX.
Call ==
    /\ last.op = "idle"
    /\ \E origin \in {"a1"} : \E contract \in {"a2"} :
        \E out \in ExecOutcomes(kv, origin, contract, U64Max) :
          Invoke("call", Malformed, NoAddr, origin, out,
                 EngineReturn(kv, call(kv, <<>>, origin, out)))

\* Engine::deploy_code_with_input: a deployment from the engine's origin.
DeployCode ==
    /\ last.op = "idle"
    /\ \E origin \in {"a1"} : \E created \in {"a2"} :
        \E out \in ExecOutcomes(kv, origin, created, U64Max) :
          Invoke("deploy_code", Malformed, NoAddr, origin, out,
                 EngineReturn(kv, deploy_code(kv, <<>>, origin, out)))

\* The host invocation ends; the engine waits for the next one.
Return ==
    /\ last.op # "idle"
    /\ last' = Idle
    /\ UNCHANGED kv

Next == Submit \/ Call \/ DeployCode \/ Return

Spec == Init /\ [][Next]_vars

----------------------------------------------------------------------------
(* Properties of submit.  In a state reached by Submit, last.pre is the     *)
(* store before the call, last.io_charged the store right after gas prepay, *)
(* last.io_executed the store right before the refund and kv the store when *)
(* submit returns.                                                          *)

IsSubmit == last.op = "submit"

SenderKnown == IsSubmit /\ last.origin # NoAddr

\* By how much the call changed the sender's stored nonce.
SenderNonceStep == get_nonce(kv, last.origin) - get_nonce(last.pre, last.origin)

PassedValidation == submit_validate(last.pre, last.input, EngineChainId) = "Ok"

\* The effective gas price as the specification defines it, from the
\* transaction's fields: min(max_priority, max_fee - base_fee) + base_fee.
EffectivePrice(transaction) ==
    IF transaction.max_fee_per_gas = 0 THEN 0
    ELSE Min(transaction.max_priority_fee_per_gas,
             transaction.max_fee_per_gas - block_base_fee_per_gas) + block_base_fee_per_gas

GasUsedCost == last.result.gas_used * EffectivePrice(last.input)

BalanceEntries(io) ==
    [k \in {key \in DOMAIN io : key[1] = "Balance"} |-> io[k]]

\* The error submit returned without having run the executor, "" if none.
EarlyError ==
    IF last.result.kind = "Err" /\ ~last.ran_evm THEN last.result.status ELSE ""

\* C1 as stated: after submit the sender's nonce is its old value or that plus
\* one, and it is plus one if and only if submit did not fail in steps 1-6.
C1_AsStated ==
    SenderKnown =>
        /\ SenderNonceStep \in {0, 1}
        /\ SenderNonceStep = 1 <=> PassedValidation

\* C1, amended: after submit the sender's nonce is its old value or that plus
\* one; it is plus one if and only if submit passed steps 1-6 and returned
\* neither GasPayment(EthAmountOverflow) from the prepay nor GasOverflow from
\* the conversion of gas_limit to u64 that follows the prepay.
C1_NonceStep ==
    SenderKnown =>
        /\ SenderNonceStep \in {0, 1}
        /\ SenderNonceStep = 1 <=>
              (PassedValidation /\ EarlyError \notin {"GasPayment", "GasOverflow"})

\* A submit whose execution ended in an EVM engine error incremented the nonce.
C1_Witness ==
    /\ SenderKnown /\ last.ran_evm
    /\ last.result.kind = "Err"
    /\ SenderNonceStep = 1

\* C2: a submit that runs the EVM with effective gas price > 0 takes
\* gas_limit * effective from the sender before execution, adds back
\* prepaid - gas_used * effective after it and credits the relayer
\* gas_used * priority_fee_per_gas, whether it returns a result or an EVM error.
C2_GasAccounting ==
    (IsSubmit /\ last.ran_evm /\ EffectivePrice(last.input) > 0) =>
        /\ last.gas_result.effective_gas_price = EffectivePrice(last.input)
        /\ last.gas_result.prepaid_amount =
              last.input.gas_limit * EffectivePrice(last.input)
        /\ get_balance(last.io_charged, last.origin) =
              get_balance(last.pre, last.origin) - last.gas_result.prepaid_amount
        /\ last.result.status # "GasPayment"
        /\ IF last.origin # last.relayer
           THEN /\ get_balance(kv, last.origin) =
                      get_balance(last.io_executed, last.origin)
                      + last.gas_result.prepaid_amount - GasUsedCost
                /\ get_balance(kv, last.relayer) =
                      get_balance(last.io_executed, last.relayer)
                      + last.result.gas_used * last.gas_result.priority_fee_per_gas
           ELSE get_balance(kv, last.origin) =
                      get_balance(last.io_executed, last.origin)
                      + last.gas_result.prepaid_amount - GasUsedCost
                      + last.result.gas_used * last.gas_result.priority_fee_per_gas

\* An EVM engine error with part of the prepaid gas left over, paid by a sender
\* who is not the relayer.
C2_Witness ==
    /\ IsSubmit /\ last.ran_evm /\ EffectivePrice(last.input) > 0
    /\ last.result.kind = "Err"
    /\ last.origin # last.relayer
    /\ last.result.gas_used < last.input.gas_limit

\* The executed transaction moved no balance to or from sender and relayer.
NoTransfer ==
    /\ get_balance(last.io_executed, last.origin) = get_balance(last.io_charged, last.origin)
    /\ get_balance(last.io_executed, last.relayer) = get_balance(last.io_charged, last.relayer)

GasPaid == IsSubmit /\ last.ran_evm /\ EffectivePrice(last.input) > 0 /\ NoTransfer

BalanceSum(io) == get_balance(io, last.origin) + get_balance(io, last.relayer)

\* C3 as stated: the balances of sender and relayer before the call sum to
\* their balances after it plus gas_used * effective_gas_price.
C3_AsStated == GasPaid => BalanceSum(last.pre) = BalanceSum(kv) + GasUsedCost

\* C3, amended: the balances of sender and relayer before the call sum to their
\* balances after it plus gas_used * (effective_gas_price - priority_fee_per_gas);
\* the base fee being zero the two prices are equal and the sum is unchanged:
\* what the sender pays for gas is what the relayer receives.
C3_Conservation ==
    GasPaid =>
        /\ last.gas_result.priority_fee_per_gas = EffectivePrice(last.input)
        /\ BalanceSum(last.pre) = BalanceSum(kv)
        /\ last.origin # last.relayer =>
              get_balance(kv, last.relayer) = get_balance(last.pre, last.relayer) + GasUsedCost

C3_Witness ==
    /\ GasPaid
    /\ last.origin # last.relayer
    /\ last.result.kind = "Ok"
    /\ get_balance(kv, last.relayer) > get_balance(last.pre, last.relayer)

ValidationKinds ==
    {"FailedTransactionParse", "InvalidChainId", "InvalidSignature", "IncorrectNonce",
     "GasOverflow", "IntrinsicGasNotMet", "MaxPriorityGasFeeTooLarge"}

\* C4 as stated: whenever submit returns one of the validation errors, the
\* store is exactly as it was before the call.
C4_AsStated ==
    (IsSubmit /\ last.result.kind = "Err" /\ last.result.status \in ValidationKinds) =>
        kv = last.pre

PrepayProduct == last.input.gas_limit * EffectivePrice(last.input)

Underfunded ==
    /\ SenderKnown /\ PassedValidation
    /\ last.input.max_fee_per_gas > 0
    /\ get_balance(last.pre, last.origin) < PrepayProduct

OutOfFundReturn ==
    /\ last.result = SubmitResult_new("OutOfFund", 0, <<>>)
    /\ SenderNonceStep = 1
    /\ BalanceEntries(kv) = BalanceEntries(last.pre)
    /\ ~last.ran_evm
    /\ last.handler = <<>>

\* C5 as stated: a transaction that passes checks 1-6 with max_fee_per_gas > 0
\* and a sender balance below gas_limit * effective_gas_price gets
\* Ok(SubmitResult{OutOfFund, 0, []}), nonce + 1, no balance change, no
\* execution and no promise.
C5_AsStated == Underfunded => OutOfFundReturn

\* C5, amended: the same, provided gas_limit * effective_gas_price fits in
\* U256; when the product overflows, submit returns the error
\* GasPayment(EthAmountOverflow) instead and leaves the store as it was.
C5_OutOfFund ==
    Underfunded =>
        IF PrepayProduct <= U256Max
        THEN OutOfFundReturn
        ELSE /\ last.result = EngineError("GasPayment", "EthAmountOverflow", 0)
             /\ kv = last.pre
             /\ ~last.ran_evm
             /\ last.handler = <<>>

C5_Witness ==
    /\ Underfunded /\ PrepayProduct <= U256Max
    /\ last.result.status = "OutOfFund"
    /\ get_balance(kv, last.origin) > 0

StatusOf(exit_reason) ==
    IF exit_reason.reason \in {"Succeed", "Revert"} THEN exit_reason.reason
    ELSE IF exit_reason.reason = "Error"
            /\ exit_reason.err \in {"OutOfOffset", "OutOfFund", "OutOfGas"}
    THEN exit_reason.err
    ELSE ""

\* C6: when the execution inside submit ends with an exit error other than
\* OutOfOffset, OutOfFund, OutOfGas, or with a fatal error, submit returns an
\* engine error with the executor's used_gas, the sender's nonce is one more,
\* the state diff is not applied and no promise is scheduled; Succeed, Revert
\* and the three listed errors give Ok(SubmitResult) with the matching status.
C6_ExitReasons ==
    (IsSubmit /\ last.ran_evm) =>
        IF StatusOf(last.out.exit_reason) = ""
        THEN /\ last.result.kind = "Err"
             /\ last.result.status \in {"EvmError", "EvmFatal"}
             /\ last.result.err = last.out.exit_reason.err
             /\ last.result.gas_used = last.out.used_gas
             /\ SenderNonceStep = 1
             /\ ~last.applied
             /\ last.io_executed =
                   set_nonce(last.io_charged, last.origin,
                             get_nonce(last.pre, last.origin) + 1)
             /\ last.handler = <<>>
        ELSE /\ last.result.kind = "Ok"
             /\ last.result.status = StatusOf(last.out.exit_reason)
             /\ last.result.gas_used = last.out.used_gas

C6_Witness ==
    /\ IsSubmit /\ last.ran_evm
    /\ last.out.exit_reason = ExitReason("Error", "StackUnderflow")
    /\ last.result.status = "EvmError"
    /\ last.input.to = NoAddr

WrongChainId == last.input.chain_id # None /\ last.input.chain_id # EngineChainId

WrongNonce == last.input.nonce # get_nonce(last.pre, last.origin)

IntrinsicOverflow == TxBaseGas + last.input.data_len > U64Max

IntrinsicNotMet == last.input.gas_limit < TxBaseGas + last.input.data_len

FeeTooLarge == last.input.max_priority_fee_per_gas > last.input.max_fee_per_gas

\* C7: submit reports the first failing check in the order parse, chain id,
\* sender recovery, nonce, intrinsic gas (overflow before not met), fee sanity,
\* gas prepay; a transaction without chain_id never yields InvalidChainId.
C7_CheckOrder ==
    IsSubmit =>
        /\ ~last.input.wellformed => EarlyError = "FailedTransactionParse"
        /\ (last.input.wellformed /\ WrongChainId) => EarlyError = "InvalidChainId"
        /\ last.input.chain_id = None => EarlyError # "InvalidChainId"
        /\ (last.input.wellformed /\ ~WrongChainId) =>
              IF last.origin = NoAddr THEN EarlyError = "InvalidSignature"
              ELSE IF WrongNonce THEN EarlyError = "IncorrectNonce"
              ELSE IF IntrinsicOverflow THEN EarlyError = "GasOverflow"
              ELSE IF IntrinsicNotMet THEN EarlyError = "IntrinsicGasNotMet"
              ELSE IF FeeTooLarge THEN EarlyError = "MaxPriorityGasFeeTooLarge"
              ELSE EarlyError \notin
                      {"FailedTransactionParse", "InvalidChainId", "InvalidSignature",
                       "IncorrectNonce", "IntrinsicGasNotMet", "MaxPriorityGasFeeTooLarge"}

\* A wrong chain id together with a wrong nonce, an intrinsic-gas overflow and
\* a priority fee above the fee cap.
C7_Witness ==
    /\ SenderKnown
    /\ WrongChainId /\ WrongNonce /\ IntrinsicOverflow /\ FeeTooLarge
    /\ EarlyError = "InvalidChainId"

Invoked == last.op # "idle"

DeletedByDiff(a) ==
    /\ last.applied
    /\ \E i \in DOMAIN last.out.values : last.out.values[i] = Delete(a)

\* C8 as stated: across submit, call, deploy_code and the apply of executor
\* diffs, the stored nonce of every address never decreases.
C8_AsStated ==
    Invoked => \A a \in Addr : get_nonce(kv, a) >= get_nonce(last.pre, a)

\* C8, amended: the stored nonce of an address never decreases, except that an
\* Apply::Delete entry of an applied diff removes the account and with it the
\* nonce, which reads zero afterwards; delete-empty removal lowers no nonce.
C8_NonceMonotone ==
    Invoked =>
        \A a \in Addr :
            \/ get_nonce(kv, a) >= get_nonce(last.pre, a)
            \/ DeletedByDiff(a) /\ get_nonce(kv, a) = 0

\* A diff that deletes an account with a nonzero nonce, next to an account the
\* same call leaves with a higher nonce.
C8_Witness ==
    /\ Invoked
    /\ DeletedByDiff("a2") /\ get_nonce(last.pre, "a2") > 0 /\ get_nonce(kv, "a2") = 0
    /\ get_nonce(kv, "a1") > get_nonce(last.pre, "a1")

\* C9 as stated: with effective gas price 0, charge_gas and refund_unused_gas
\* write, create or change no balance entry.
C9_AsStated ==
    (SenderKnown /\ PassedValidation /\ EffectivePrice(last.input) = 0) =>
        /\ BalanceEntries(last.io_charged) = BalanceEntries(last.pre)
        /\ BalanceEntries(kv) = BalanceEntries(last.io_executed)

----------------------------------------------------------------------------
(* filter_promises_from_logs on every list of up to MaxLogs logs, starting  *)
(* from a handler without promises.                                         *)

MaxLogs == 3

LogKinds ==
    {Log(a, t, d) : a \in {ExitToNear_ADDRESS, ExitToEthereum_ADDRESS, Address("a2")},
                    t \in {<<>>, <<H256(7)>>},
                    d \in {<<0, 1>>, <<1, 2, 3>>, <<5>>}}

LogLists == UNION {[1..n -> LogKinds] : n \in 0..MaxLogs}

InitLogs ==
    /\ kv = InitStore(0)
    /\ last = Idle

FilterReturn(io, f) ==
    SubmitReturn(io, SubmitResult_new("Succeed", 0, f.logs), f.handler, FALSE, FALSE,
                 GasPaymentResult_default, io, io)

FilterLogs ==
    /\ last.op = "idle"
    /\ \E logs \in LogLists :
          last' = Last("filter", Malformed, NoAddr, NoAddr,
                       [NoOutcome EXCEPT !.logs = logs], kv,
                       FilterReturn(kv, filter_promises_from_logs(<<>>, logs)))
    /\ UNCHANGED kv

NextLogs == FilterLogs \/ Return

SpecLogs == InitLogs /\ [][NextLogs]_vars

IsExitAddress(log) ==
    log.address \in {ExitToNear_ADDRESS, ExitToEthereum_ADDRESS}

Surfaces(log) == ~(IsExitAddress(log) /\ log.topics = <<>>)

SameLog(result_log, log) ==
    /\ <<result_log.address>> = log.address
    /\ Len(result_log.topics) = Len(log.topics)
    /\ \A i \in 1..Len(log.topics) : <<result_log.topics[i]>> = log.topics[i]
    /\ result_log.data = log.data

Filtered == last.op = "filter"

\* C10: the logs returned are the input logs, in their order and with their
\* address, topics and data, minus every log of the ExitToNear or
\* ExitToEthereum address with empty topics; an exit-address log with topics
\* is returned, one without topics is not.
C10_FilteredLogs ==
    Filtered =>
        /\ Len(last.result.logs) = Len(SelectSeq(last.out.logs, Surfaces))
        /\ \A i \in 1..Len(last.result.logs) :
              SameLog(last.result.logs[i], SelectSeq(last.out.logs, Surfaces)[i])
        /\ \A i \in 1..Len(last.out.logs) :
              IsExitAddress(last.out.logs[i]) =>
                 ((last.out.logs[i].topics # <<>>) <=>
                  (\E j \in 1..Len(last.result.logs) :
                      SameLog(last.result.logs[j], last.out.logs[i])))

\* An internal exit log between an exit log with topics and an ordinary log.
C10_Witness ==
    /\ Filtered
    /\ Len(last.out.logs) = 3 /\ Len(last.result.logs) = 2
    /\ IsExitAddress(last.out.logs[1]) /\ last.out.logs[1].topics # <<>>
    /\ IsExitAddress(last.out.logs[2]) /\ last.out.logs[2].topics = <<>>
    /\ ~IsExitAddress(last.out.logs[3])
    /\ last.handler # <<>>

\* A promise envelope: an exit-address log without topics whose data decodes.
IsCreateEnvelope(log) ==
    IsExitAddress(log) /\ log.topics = <<>> /\ Len(log.data) = 2 /\ log.data[1] = 0

IsCallbackEnvelope(log) ==
    IsExitAddress(log) /\ log.topics = <<>> /\ Len(log.data) = 3 /\ log.data[1] = 1

HostCall(name, base, args, id) == [call |-> name, base |-> base, args |-> args, id |-> id]

\* The calls the host must have seen after the first n logs.
RECURSIVE CallsUpTo(_, _)
CallsUpTo(logs, n) ==
    IF n = 0 THEN <<>>
    ELSE IF IsCreateEnvelope(logs[n])
    THEN Append(CallsUpTo(logs, n - 1),
                HostCall("promise_create_call", None, logs[n].data[2],
                         Len(CallsUpTo(logs, n - 1))))
    ELSE IF IsCallbackEnvelope(logs[n])
    THEN CallsUpTo(logs, n - 1)
         \o <<HostCall("promise_create_call", None, logs[n].data[2],
                       Len(CallsUpTo(logs, n - 1))),
              HostCall("promise_attach_callback", Len(CallsUpTo(logs, n - 1)),
                       logs[n].data[3], Len(CallsUpTo(logs, n - 1)) + 1)>>
    ELSE CallsUpTo(logs, n - 1)

\* C11: promises reach the host in the order of their envelope logs: a Create
\* envelope gives one promise_create_call, a Callback envelope gives
\* promise_create_call(base) immediately followed by promise_attach_callback
\* on the id that very create call returned.
C11_PromiseOrder ==
    Filtered =>
        /\ last.handler = CallsUpTo(last.out.logs, Len(last.out.logs))
        /\ \A p \in 1..Len(last.handler) :
              last.handler[p].call = "promise_attach_callback" =>
                  /\ p > 1
                  /\ last.handler[p - 1].call = "promise_create_call"
                  /\ last.handler[p].base = last.handler[p - 1].id

\* A Create envelope, then a Callback envelope whose callback hangs on the
\* second promise, then a second Create envelope.
C11_Witness ==
    /\ Filtered
    /\ Len(last.out.logs) = 3
    /\ IsCreateEnvelope(last.out.logs[1])
    /\ IsCallbackEnvelope(last.out.logs[2])
    /\ IsCreateEnvelope(last.out.logs[3])
    /\ Len(last.handler) = 4
    /\ last.handler[3].call = "promise_attach_callback" /\ last.handler[3].base = 1

NotExitAddress(log) == ~IsExitAddress(log)

OrdinaryResult(result_log) ==
    <<result_log.address>> \notin {ExitToNear_ADDRESS, ExitToEthereum_ADDRESS}

\* C12: a log of another address than the two exit addresses causes no call to
\* the promise handler, whatever its topics and data, and is returned
\* unchanged: the handler sees what it would see with those logs left out, and
\* the returned logs of other addresses are the input's, in order.
C12_OnlyExitAddresses ==
    Filtered =>
        /\ last.handler =
              filter_promises_from_logs(<<>>, SelectSeq(last.out.logs, IsExitAddress)).handler
        /\ (\A i \in 1..Len(last.out.logs) : NotExitAddress(last.out.logs[i]))
              => last.handler = <<>>
        /\ Len(SelectSeq(last.result.logs, OrdinaryResult)) =
              Len(SelectSeq(last.out.logs, NotExitAddress))
        /\ \A i \in 1..Len(SelectSeq(last.result.logs, OrdinaryResult)) :
              SameLog(SelectSeq(last.result.logs, OrdinaryResult)[i],
                      SelectSeq(last.out.logs, NotExitAddress)[i])

\* Logs of an ordinary address that carry, without topics, a valid Create and
\* a valid Callback.
C12_Witness ==
    /\ Filtered
    /\ Len(last.out.logs) = 2
    /\ last.out.logs[1] = Log(Address("a2"), <<>>, <<0, 1>>)
    /\ last.out.logs[2] = Log(Address("a2"), <<>>, <<1, 2, 3>>)
    /\ last.handler = <<>>
    /\ Len(last.result.logs) = 2

----------------------------------------------------------------------------
(* The token bijection: register_token on every pair of an ERC-20 address   *)
(* and a NEP-141 account id of small sets.                                  *)

Erc20Tokens == {"e1", "e2", "e3"}

Nep141Tokens == {"n1", "n2", "n3"}

bytes_to_key(prefix, bytes) == <<prefix, bytes>>

\* BijectionMap::insert: the left-to-right and the right-to-left entry.
BijectionMap_insert(io, value_left, value_right) ==
    io_write_storage(
        io_write_storage(io, bytes_to_key("Nep141Erc20Map", value_left), value_right),
        bytes_to_key("Erc20Nep141Map", value_right), value_left)

\* Result: [ok, err, value].
get_erc20_from_nep141(io, nep141_account_id) ==
    IF io_has(io, bytes_to_key("Nep141Erc20Map", nep141_account_id))
    THEN [ok |-> TRUE, err |-> "",
          value |-> io[bytes_to_key("Nep141Erc20Map", nep141_account_id)]]
    ELSE [ok |-> FALSE, err |-> "Nep141NotFound", value |-> NoAddr]

RegisterTokenResult(io, kind, err) ==
    SubmitReturn(io, [kind |-> kind, version |-> 0, status |-> err, err |-> err,
                      gas_used |-> 0, logs |-> <<>>],
                 <<>>, FALSE, FALSE, GasPaymentResult_default, io, io)

\* register_token looking the address up in the reverse map.
register_token_by_address(io, erc20_token, nep141_token) ==
    IF io_has(io, bytes_to_key("Erc20Nep141Map", erc20_token))
    THEN RegisterTokenResult(io, "Err", "TokenAlreadyRegistered")
    ELSE RegisterTokenResult(BijectionMap_insert(io, nep141_token, erc20_token), "Ok", "")

register_token(io, erc20_token, nep141_token) ==
    LET found == get_erc20_from_nep141(io, nep141_token)
    IN IF ~found.ok /\ found.err = "Nep141NotFound"
       THEN RegisterTokenResult(BijectionMap_insert(io, nep141_token, erc20_token), "Ok", "")
       ELSE IF ~found.ok
       THEN RegisterTokenResult(io, "Err", "InvalidNep141AccountId")
       ELSE RegisterTokenResult(io, "Err", "TokenAlreadyRegistered")

RegisterArgs(erc20_token, nep141_token) ==
    [erc20_token |-> erc20_token, nep141_token |-> nep141_token]

InitTokens ==
    /\ kv = InitStore(0)
    /\ last = Idle

RegisterToken ==
    /\ last.op = "idle"
    /\ \E erc20_token \in Erc20Tokens, nep141_token \in Nep141Tokens :
          Invoke("register_token", RegisterArgs(erc20_token, nep141_token), NoAddr, NoAddr,
                 NoOutcome, register_token(kv, erc20_token, nep141_token))

NextTokens == RegisterToken \/ Return

SpecTokens == InitTokens /\ [][NextTokens]_vars

Forward(io, nep141_token) ==
    IF io_has(io, <<"Nep141Erc20Map", nep141_token>>)
    THEN io[<<"Nep141Erc20Map", nep141_token>>] ELSE NoAddr

Reverse(io, erc20_token) ==
    IF io_has(io, <<"Erc20Nep141Map", erc20_token>>)
    THEN io[<<"Erc20Nep141Map", erc20_token>>] ELSE NoAddr

TokenKeys(io) == {k \in DOMAIN io : k[1] \in {"Nep141Erc20Map", "Erc20Nep141Map"}}

\* C13 as stated: after any sequence of register_token calls the forward and
\* the reverse map are inverses of each other, so no two account ids are mapped
\* to the same ERC-20 address.
C13_AsStated ==
    /\ \A a \in Nep141Tokens, e \in Erc20Tokens : Forward(kv, a) = e <=> Reverse(kv, e) = a
    /\ \A a1 \in Nep141Tokens, a2 \in Nep141Tokens :
          (Forward(kv, a1) # NoAddr /\ Forward(kv, a1) = Forward(kv, a2)) => a1 = a2

\* C14 as stated: no entry of either map is ever removed or overwritten, so
\* that a registration that succeeded stays as it was made.
C14_AsStated ==
    [][\A k \in TokenKeys(kv) : k \in DOMAIN kv' /\ kv'[k] = kv[k]]_vars

Registering == last.op = "register_token"

\* C15: register_token(e, a) returns TokenAlreadyRegistered and writes nothing
\* whenever a has a forward entry; when a has none it writes the forward entry
\* a -> e and the reverse entry e -> a and returns Ok.
C15_RegisterToken ==
    Registering =>
        IF Forward(last.pre, last.input.nep141_token) # NoAddr
        THEN /\ last.result.kind = "Err"
             /\ last.result.status = "TokenAlreadyRegistered"
             /\ kv = last.pre
        ELSE /\ last.result.kind = "Ok"
             /\ Forward(kv, last.input.nep141_token) = last.input.erc20_token
             /\ Reverse(kv, last.input.erc20_token) = last.input.nep141_token
             /\ \A k \in DOMAIN kv :
                   \/ k \in DOMAIN last.pre /\ kv[k] = last.pre[k]
                   \/ k = <<"Nep141Erc20Map", last.input.nep141_token>>
                   \/ k = <<"Erc20Nep141Map", last.input.erc20_token>>
             /\ DOMAIN last.pre \subseteq DOMAIN kv

\* A registered account id is registered again, with an address that no
\* account id is mapped to yet.
C15_Witness ==
    /\ Registering
    /\ Forward(last.pre, last.input.nep141_token) # NoAddr
    /\ Reverse(last.pre, last.input.erc20_token) = NoAddr
    /\ last.result.status = "TokenAlreadyRegistered"

----------------------------------------------------------------------------
(* Contract storage and its generations: the storage accessors and apply on *)
(* the account "a2", starting from every store in which the account is at   *)
(* some generation and holds slots in that generation and in earlier ones.  *)

Slots == {0, 1}

\* Backend::storage
Backend_storage(io, address, index) ==
    get_storage(io, address, index, get_generation(io, address))

PriorStore(generation, slots, nonce, code) ==
    (EthSupplyKey :> 0)
    @@ (IF generation > 0 THEN address_to_key("Generation", "a2") :> generation ELSE <<>>)
    @@ (IF nonce > 0 THEN address_to_key("Nonce", "a2") :> nonce ELSE <<>>)
    @@ (IF code # NoCode THEN address_to_key("Code", "a2") :> code ELSE <<>>)
    @@ [k \in {storage_to_key("a2", s[2], s[1]) : s \in slots} |-> 1]
    @@ (address_to_key("Nonce", "a1") :> 1)
    @@ (storage_to_key("a1", 0, 0) :> 1)

PriorStores ==
    UNION {{PriorStore(g, slots, nonce, code) :
                slots \in SUBSET ((0..g) \X Slots), nonce \in {0, 1}, code \in {NoCode, <<1>>}} :
           g \in 0..MaxGen}

InitStorage ==
    /\ kv \in PriorStores
    /\ last = Idle

StorageReturn(io) ==
    SubmitReturn(io, SubmitResult_new("Succeed", 0, <<>>), <<>>, FALSE, TRUE,
                 GasPaymentResult_default, io, io)

\* remove_all_storage(a) at a's generation, then set_storage in the next one.
ResetAndSet ==
    /\ last.op = "idle"
    /\ \E key \in Slots, value \in {0, 1, 2} :
          Invoke("reset_and_set", [address |-> "a2", key |-> key, value |-> value],
                 NoAddr, NoAddr, NoOutcome,
                 StorageReturn(
                     set_storage(remove_all_storage(kv, "a2", get_generation(kv, "a2")),
                                 "a2", key, value, get_generation(kv, "a2") + 1)))

SlotWrites == UNION {[1..n -> Slots \X {0, 2}] : n \in 0..2}

StorageEntries(io) ==
    {Delete("a2")}
    \cup
    {Modify("a2", [nonce |-> nonce, balance |-> 0], code, storage, reset_storage) :
        nonce \in {get_nonce(io, "a2"), get_nonce(io, "a2") + 1},
        code \in {NoCode, <<1>>}, storage \in SlotWrites, reset_storage \in BOOLEAN}

\* apply of a diff of one entry.
ApplyEntry ==
    /\ last.op = "idle"
    /\ \E entry \in StorageEntries(kv), delete_empty \in BOOLEAN :
          Invoke("apply", [address |-> "a2", delete_empty |-> delete_empty],
                 NoAddr, NoAddr, [NoOutcome EXCEPT !.values = <<entry>>],
                 StorageReturn(apply(kv, <<entry>>, delete_empty)))

NextStorage == ResetAndSet \/ ApplyEntry \/ Return

SpecStorage == InitStorage /\ [][NextStorage]_vars

WasResetAndSet == last.op = "reset_and_set"

OldGen == get_generation(last.pre, "a2")

\* C16 as stated: after remove_all_storage(a) and set_storage(a, k, v, new_gen),
\* get_storage(a, k, old_gen) is zero and get_storage(a, k, new_gen) is v.
C16_AsStated ==
    WasResetAndSet =>
        /\ get_storage(kv, "a2", last.input.key, OldGen) = 0
        /\ get_storage(kv, "a2", last.input.key, OldGen + 1) = last.input.value

\* C16, amended: after the two calls get_storage(a, k, new_gen) is v, and so is
\* the backend's storage(a, k), which reads in a's current generation new_gen,
\* while every other slot reads zero there; get_storage(a, k', old_gen) is for
\* every slot what it was before the calls, zero only where nothing was stored.
C16_Generations ==
    WasResetAndSet =>
        /\ get_generation(kv, "a2") = OldGen + 1
        /\ get_storage(kv, "a2", last.input.key, OldGen + 1) = last.input.value
        /\ \A k \in Slots :
              /\ Backend_storage(kv, "a2", k) =
                    (IF k = last.input.key THEN last.input.value ELSE 0)
              /\ get_storage(kv, "a2", k, OldGen) = get_storage(last.pre, "a2", k, OldGen)

\* The slot held a value in the old generation and gets another in the new.
C16_Witness ==
    /\ WasResetAndSet
    /\ get_storage(last.pre, "a2", last.input.key, OldGen) = 1
    /\ last.input.value = 2
    /\ Backend_storage(kv, "a2", last.input.key) = 2
    /\ get_storage(kv, "a2", last.input.key, OldGen) = 1

AppliedEntry == last.out.values[1]

Clearing ==
    /\ last.op = "apply"
    /\ \/ AppliedEntry.type = "Delete"
       \/ AppliedEntry.type = "Modify" /\ AppliedEntry.reset_storage

\* The value the entry's last write to the slot carries, zero if it has none.
LastWritten(storage, k) ==
    IF \E i \in 1..Len(storage) : storage[i][1] = k
    THEN storage[CHOOSE i \in 1..Len(storage) :
                    /\ storage[i][1] = k
                    /\ \A j \in (i + 1)..Len(storage) : storage[j][1] # k][2]
    ELSE 0

StorageKeys(io) == {key \in DOMAIN io : key[1] = "Storage"}

\* C17: after apply processed Delete{a} or Modify{a, reset_storage = true},
\* storage(a, k) is zero for every slot but those the Modify wrote with a
\* non-zero value; a's generation is one higher and every storage entry the
\* store held before is still there.
C17_ClearedByGeneration ==
    Clearing =>
        /\ get_generation(kv, "a2") = OldGen + 1
        /\ \A k \in Slots :
              Backend_storage(kv, "a2", k) = LastWritten(AppliedEntry.storage, k)
        /\ \A key \in StorageKeys(last.pre) : key \in DOMAIN kv /\ kv[key] = last.pre[key]

\* A resetting Modify on an account that holds both slots, writing one of them.
C17_Witness ==
    /\ Clearing
    /\ AppliedEntry.type = "Modify"
    /\ \A k \in Slots : Backend_storage(last.pre, "a2", k) = 1
    /\ Backend_storage(kv, "a2", 0) = 2
    /\ Backend_storage(kv, "a2", 1) = 0
    /\ Cardinality(StorageKeys(kv)) = Cardinality(StorageKeys(last.pre)) + 1

----------------------------------------------------------------------------
(* The exit precompiles (engine-precompiles/src/native.rs), built with the  *)
(* `contract` feature, with and without `error_refund`.  Input bytes are    *)
(* 0..MaxByte; an address takes AddressLen bytes and an amount AmountLen    *)
(* bytes.  A run returns [kind, err, output, logs], kind being "Ok", "Err"  *)
(* (an ExitError) or "Panic" (the invocation aborts).                       *)

MaxByte == 2

AddressLen == 1

AmountLen == 1

MaxInput == 4

U128Max == 1

EXIT_TO_NEAR_GAS == 0

EXIT_TO_ETHEREUM_GAS == 0

\* NEAR gas is counted in Tgas (10^12 gas).
FT_TRANSFER_GAS == 100

REFUND_ON_ERROR_GAS == 60

WITHDRAWAL_GAS == 100

EXIT_TO_NEAR_SIGNATURE == H256("5a91b8bc9c1981673db8fb226dbd8fcdd0c23f45cd28abb31403a5392f6dd0c7")

EXIT_TO_ETH_SIGNATURE == H256("d046c2bb01a5622bc4b9696332391d87491373762eeac0831c48400e2d5a5f07")

ETH_ADDRESS == Address("0000000000000000000000000000000000000000")

\* The engine's account id, which holds the ETH of the connector.
CurrentAccountId == "aurora"

PrecompileOk(logs) == [kind |-> "Ok", err |-> "", output |-> <<>>, logs |-> logs]

PrecompileErr(err) == [kind |-> "Err", err |-> err, output |-> <<>>, logs |-> <<>>]

PrecompilePanic(err) == [kind |-> "Panic", err |-> err, output |-> <<>>, logs |-> <<>>]

SliceFrom(bytes, n) == SubSeq(bytes, n + 1, Len(bytes))

\* U256::from_big_endian
RECURSIVE from_big_endian(_)
from_big_endian(bytes) ==
    IF bytes = <<>> THEN 0
    ELSE from_big_endian(SubSeq(bytes, 1, Len(bytes) - 1)) * (MaxByte + 1) + bytes[Len(bytes)]

\* AccountId::try_from(&[u8]): the byte MaxByte stands for a character that an
\* account id cannot hold; an account id is not empty.
AccountId_valid(bytes) == bytes # <<>> /\ \A i \in 1..Len(bytes) : bytes[i] # MaxByte

encode_address(a) == H256(<<"address", a[1]>>)

keccak_string(dest) == H256(<<"keccak", dest>>)

ExitToNear_encode(sender, erc20_address, dest, amount) ==
    [topics |-> <<EXIT_TO_NEAR_SIGNATURE, encode_address(sender),
                  encode_address(erc20_address), keccak_string(dest)>>,
     data |-> <<amount>>]

ExitToEth_encode(sender, erc20_address, dest, amount) ==
    [topics |-> <<EXIT_TO_ETH_SIGNATURE, encode_address(sender),
                  encode_address(erc20_address), encode_address(dest)>>,
     data |-> <<amount>>]

PromiseCreateArgs(target_account_id, method, args, attached_balance, attached_gas) ==
    [target_account_id |-> target_account_id, method |-> method, args |-> args,
     attached_balance |-> attached_balance, attached_gas |-> attached_gas]

\* borsh of PromiseArgs::Create / PromiseArgs::Callback
PromiseArgs_Create(promise) == <<0, promise>>

PromiseArgs_Callback(base, callback) == <<1, base, callback>>

\* Whether the reverse token map has an entry for the ERC-20 address.
nep141_known(io, erc20_token) == io_has(io, bytes_to_key("Erc20Nep141Map", erc20_token))

get_nep141_from_erc20(io, erc20_token) == io[bytes_to_key("Erc20Nep141Map", erc20_token)]

Context(caller, apparent_value) == [caller |-> caller, apparent_value |-> apparent_value]

\* The two logs of a successful exit.
exit_logs(address, promise, event) ==
    PrecompileOk(<<Log(address, <<>>, promise), Log(address, event.topics, event.data)>>)

\* The transfer promise alone, whatever the build.
exit_to_near_promise_plain(nep141_address, args, refund_address, erc20_address, amount, current_account_id, error_refund) ==
    PromiseArgs_Create(
        PromiseCreateArgs(nep141_address, "ft_transfer", args, 1, FT_TRANSFER_GAS))

exit_to_near_promise(nep141_address, args, refund_address, erc20_address, amount, current_account_id, error_refund) ==
    IF error_refund
    THEN PromiseArgs_Callback(
             PromiseCreateArgs(nep141_address, "ft_transfer", args, 1, FT_TRANSFER_GAS),
             PromiseCreateArgs(current_account_id, "refund_on_error",
                               <<refund_address, erc20_address, amount>>, 0,
                               REFUND_ON_ERROR_GAS))
    ELSE PromiseArgs_Create(
             PromiseCreateArgs(nep141_address, "ft_transfer", args, 1, FT_TRANSFER_GAS))

\* ExitToNear::run, flag 0x0; input is what follows the flag and the refund address.
exit_to_near_eth(current_account_id, input, refund_address, context, error_refund) ==
    IF ~AccountId_valid(input) THEN PrecompileErr("ERR_INVALID_RECEIVER_ACCOUNT_ID")
    ELSE IF context.apparent_value > U128Max THEN PrecompilePanic("as_u128")
    ELSE exit_logs(ExitToNear_ADDRESS,
                   exit_to_near_promise(current_account_id,
                                        <<"json", input, context.apparent_value>>,
                                        refund_address, None, context.apparent_value,
                                        current_account_id, error_refund),
                   ExitToNear_encode(Address(context.caller), ETH_ADDRESS, input,
                                     context.apparent_value))

\* ExitToNear::run, flag 0x1.
exit_to_near_erc20(io, current_account_id, input, refund_address, context, error_refund) ==
    IF context.apparent_value # 0 THEN PrecompileErr("ERR_ETH_ATTACHED_FOR_ERC20_EXIT")
    ELSE IF ~nep141_known(io, context.caller) THEN PrecompilePanic("Target token not found")
    ELSE IF Len(input) < AmountLen THEN PrecompilePanic("slice index")
    ELSE IF ~AccountId_valid(SliceFrom(input, AmountLen))
    THEN PrecompileErr("ERR_INVALID_RECEIVER_ACCOUNT_ID")
    ELSE IF from_big_endian(SubSeq(input, 1, AmountLen)) > U128Max
    THEN PrecompilePanic("as_u128")
    ELSE exit_logs(ExitToNear_ADDRESS,
                   exit_to_near_promise(get_nep141_from_erc20(io, context.caller),
                                        <<"json", SliceFrom(input, AmountLen),
                                          from_big_endian(SubSeq(input, 1, AmountLen))>>,
                                        refund_address, context.caller,
                                        from_big_endian(SubSeq(input, 1, AmountLen)),
                                        current_account_id, error_refund),
                   ExitToNear_encode(Address(context.caller), Address(context.caller),
                                     SliceFrom(input, AmountLen),
                                     from_big_endian(SubSeq(input, 1, AmountLen))))

\* ExitToNear::run after the static-mode check.
exit_to_near(io, current_account_id, input, context, error_refund) ==
    IF input = <<>> THEN PrecompilePanic("index")
    ELSE IF error_refund /\ Len(input) < 1 + AddressLen THEN PrecompilePanic("slice index")
    ELSE IF input[1] = 0
    THEN exit_to_near_eth(current_account_id,
                          SliceFrom(input, IF error_refund THEN 1 + AddressLen ELSE 1),
                          IF error_refund THEN SubSeq(input, 2, 1 + AddressLen) ELSE <<>>,
                          context, error_refund)
    ELSE IF input[1] = 1
    THEN exit_to_near_erc20(io, current_account_id,
                            SliceFrom(input, IF error_refund THEN 1 + AddressLen ELSE 1),
                            IF error_refund THEN SubSeq(input, 2, 1 + AddressLen) ELSE <<>>,
                            context, error_refund)
    ELSE PrecompileErr("ERR_INVALID_FLAG")

\* ExitToNear::run without the static-mode check.
ExitToNear_run_ignoring_static(io, current_account_id, input, target_gas, context, is_static, error_refund) ==
    IF target_gas # None /\ EXIT_TO_NEAR_GAS > target_gas THEN PrecompileErr("OutOfGas")
    ELSE exit_to_near(io, current_account_id, input, context, error_refund)

ExitToNear_run(io, current_account_id, input, target_gas, context, is_static, error_refund) ==
    IF target_gas # None /\ EXIT_TO_NEAR_GAS > target_gas THEN PrecompileErr("OutOfGas")
    ELSE IF is_static THEN PrecompileErr("ERR_INVALID_IN_STATIC")
    ELSE exit_to_near(io, current_account_id, input, context, error_refund)

\* The withdraw promise sent to the engine's own account.
withdraw_promise_to_engine(nep141_address, serialized_args) ==
    PromiseArgs_Create(
        PromiseCreateArgs(CurrentAccountId, "withdraw", serialized_args, 1, WITHDRAWAL_GAS))

withdraw_promise(nep141_address, serialized_args) ==
    PromiseArgs_Create(
        PromiseCreateArgs(nep141_address, "withdraw", serialized_args, 1, WITHDRAWAL_GAS))

\* ExitToEthereum::run, flag 0x0; input is what follows the flag.
exit_to_ethereum_eth(current_account_id, input, context) ==
    IF Len(input) # AddressLen THEN PrecompileErr("ERR_INVALID_RECIPIENT_ADDRESS")
    ELSE IF context.apparent_value > U128Max THEN PrecompilePanic("as_u128")
    ELSE exit_logs(ExitToEthereum_ADDRESS,
                   withdraw_promise(current_account_id,
                                    <<"borsh", input, context.apparent_value>>),
                   ExitToEth_encode(Address(context.caller), ETH_ADDRESS, Address(input),
                                    context.apparent_value))

\* ExitToEthereum::run, flag 0x1.
exit_to_ethereum_erc20(io, input, context) ==
    IF context.apparent_value # 0 THEN PrecompileErr("ERR_ETH_ATTACHED_FOR_ERC20_EXIT")
    ELSE IF ~nep141_known(io, context.caller) THEN PrecompilePanic("Target token not found")
    ELSE IF Len(input) < AmountLen THEN PrecompilePanic("slice index")
    ELSE IF Len(input) # AmountLen + AddressLen
    THEN PrecompileErr("ERR_INVALID_RECIPIENT_ADDRESS")
    ELSE IF from_big_endian(SubSeq(input, 1, AmountLen)) > U128Max
    THEN PrecompilePanic("as_u128")
    ELSE exit_logs(ExitToEthereum_ADDRESS,
                   withdraw_promise(get_nep141_from_erc20(io, context.caller),
                                    <<"json", from_big_endian(SubSeq(input, 1, AmountLen)),
                                      SliceFrom(input, AmountLen)>>),
                   ExitToEth_encode(Address(context.caller), Address(context.caller),
                                    Address(SliceFrom(input, AmountLen)),
                                    from_big_endian(SubSeq(input, 1, AmountLen))))

\* ExitToEthereum::run after the static-mode check.
exit_to_ethereum(io, current_account_id, input, context) ==
    IF input = <<>> THEN PrecompilePanic("index")
    ELSE IF input[1] = 0 THEN exit_to_ethereum_eth(current_account_id, SliceFrom(input, 1), context)
    ELSE IF input[1] = 1 THEN exit_to_ethereum_erc20(io, SliceFrom(input, 1), context)
    ELSE PrecompileErr("ERR_INVALID_RECEIVER_ACCOUNT_ID")

\* ExitToEthereum::run without the static-mode check.
ExitToEthereum_run_ignoring_static(io, current_account_id, input, target_gas, context, is_static) ==
    IF target_gas # None /\ EXIT_TO_ETHEREUM_GAS > target_gas THEN PrecompileErr("OutOfGas")
    ELSE exit_to_ethereum(io, current_account_id, input, context)

ExitToEthereum_run(io, current_account_id, input, target_gas, context, is_static) ==
    IF target_gas # None /\ EXIT_TO_ETHEREUM_GAS > target_gas THEN PrecompileErr("OutOfGas")
    ELSE IF is_static THEN PrecompileErr("ERR_INVALID_IN_STATIC")
    ELSE exit_to_ethereum(io, current_account_id, input, context)

ExitInputs == UNION {[1..n -> 0..MaxByte] : n \in 0..MaxInput}

ExitContexts == {Context(caller, v) : caller \in {"e1", "e2"}, v \in 0..(U128Max + 1)}

ExitArgs(precompile, input, target_gas, context, is_static, error_refund) ==
    [precompile |-> precompile, input |-> input, target_gas |-> target_gas,
     context |-> context, is_static |-> is_static, error_refund |-> error_refund]

ExitReturn(io, result) ==
    SubmitReturn(io, result, <<>>, FALSE, FALSE, GasPaymentResult_default, io, io)

\* The token "n1" is registered for the ERC-20 contract "e1"; "e2" has no token.
InitExit ==
    /\ kv = BijectionMap_insert(InitStore(0), "n1", "e1")
    /\ last = Idle

RunExitToNear ==
    /\ last.op = "idle"
    /\ \E input \in ExitInputs, target_gas \in {None, 0}, context \in ExitContexts :
        \E is_static \in BOOLEAN, error_refund \in BOOLEAN :
          last' = Last("exit_run",
                       ExitArgs("ExitToNear", input, target_gas, context, is_static,
                                error_refund),
                       NoAddr, NoAddr, NoOutcome, kv,
                       ExitReturn(kv, ExitToNear_run(kv, CurrentAccountId, input, target_gas,
                                                     context, is_static, error_refund)))
    /\ UNCHANGED kv

RunExitToEthereum ==
    /\ last.op = "idle"
    /\ \E input \in ExitInputs, target_gas \in {None, 0}, context \in ExitContexts :
        \E is_static \in BOOLEAN :
          last' = Last("exit_run",
                       ExitArgs("ExitToEthereum", input, target_gas, context, is_static,
                                FALSE),
                       NoAddr, NoAddr, NoOutcome, kv,
                       ExitReturn(kv, ExitToEthereum_run(kv, CurrentAccountId, input,
                                                         target_gas, context, is_static)))
    /\ UNCHANGED kv

NextExit == RunExitToNear \/ RunExitToEthereum \/ Return

SpecExit == InitExit /\ [][NextExit]_vars

ExitRan == last.op = "exit_run"

\* C18: an exit precompile run with is_static = true returns
\* ExitError::Other("ERR_INVALID_IN_STATIC") and no log, whatever the input
\* (the empty input included) and the context.
C18_StaticRejected ==
    (ExitRan /\ last.input.is_static) =>
        /\ last.result.kind = "Err"
        /\ last.result.err = "ERR_INVALID_IN_STATIC"
        /\ last.result.logs = <<>>

\* C18 witness: a static run on the empty input, by a caller without a token
\* and with a value that does not fit 128 bits, was rejected.
C18_Witness ==
    /\ ExitRan /\ last.input.is_static
    /\ last.input.input = <<>>
    /\ last.input.context = Context("e2", U128Max + 1)
    /\ last.result.err = "ERR_INVALID_IN_STATIC"

OwnAddress == IF last.input.precompile = "ExitToNear" THEN ExitToNear_ADDRESS ELSE ExitToEthereum_ADDRESS

\* The envelope log: no topics, a borsh PromiseArgs whose call attaches 1 yocto.
IsEnvelope(log) ==
    /\ log.address = OwnAddress
    /\ log.topics = <<>>
    /\ Len(log.data) \in {2, 3}
    /\ log.data[1] = Len(log.data) - 2
    /\ log.data[2].attached_balance = 1

\* The event log: signature, sender, erc20_address and dest as topics, the
\* amount as data.
IsExitEvent(log) ==
    /\ log.address = OwnAddress
    /\ Len(log.topics) = 4
    /\ log.topics[1] = (IF last.input.precompile = "ExitToNear" THEN EXIT_TO_NEAR_SIGNATURE ELSE EXIT_TO_ETH_SIGNATURE)
    /\ log.topics[2] = encode_address(Address(last.input.context.caller))
    /\ log.topics[3] \in {encode_address(ETH_ADDRESS), encode_address(Address(last.input.context.caller))}
    /\ Len(log.data) = 1
    /\ log.data[1] \in 0..U128Max

ExitSucceeded ==
    /\ last.result.kind = "Ok"
    /\ last.result.output = <<>>
    /\ Len(last.result.logs) = 2
    /\ IsEnvelope(last.result.logs[1])
    /\ IsExitEvent(last.result.logs[2])

\* C19 as stated: every successful run returns the empty output and exactly
\* two logs at the precompile's own address, the envelope and then the event;
\* every run that fails returns an ExitError and no log.
C19_AsStated ==
    ExitRan => \/ ExitSucceeded
               \/ last.result.kind = "Err" /\ last.result.logs = <<>>

\* What does hold of the runs that return: a success has the shape above, and
\* an error carries no log.
C19_ReturningRuns ==
    /\ (ExitRan /\ last.result.kind = "Ok") => ExitSucceeded
    /\ (ExitRan /\ last.result.kind = "Err") => last.result.logs = <<>>

\* The failures of an exit: a receiver account id that is not valid, ETH
\* attached to an ERC-20 exit, an ERC-20 exit by a caller without a token.
ExitPrefix == IF last.input.error_refund THEN 1 + AddressLen ELSE 1

\* The input holds its flag and, where the build asks for one, its refund address.
ExitFlagged(flag) == Len(last.input.input) >= ExitPrefix /\ last.input.input[1] = flag

InvalidReceiver ==
    /\ last.input.precompile = "ExitToNear"
    /\ ExitFlagged(0)
    /\ ~AccountId_valid(SliceFrom(last.input.input, ExitPrefix))

EthAttachedToErc20 ==
    /\ ExitFlagged(1)
    /\ last.input.context.apparent_value # 0

UnmappedCaller ==
    /\ ExitFlagged(1)
    /\ last.input.context.apparent_value = 0
    /\ ~nep141_known(kv, last.input.context.caller)

\* C20 as stated: an exit that fails (receiver not valid, ETH attached to an
\* ERC-20 exit, caller without a reverse-map entry) returns an ExitError and
\* never aborts the engine invocation.
C20_AsStated ==
    (ExitRan /\ ~last.input.is_static /\ (InvalidReceiver \/ EthAttachedToErc20 \/ UnmappedCaller))
        => last.result.kind = "Err"

ExitOk == ExitRan /\ last.result.kind = "Ok"

ExitFlag == last.input.input[1]

\* The amount an exit states: the value of the call, or the amount bytes.
ExitAmount ==
    IF ExitFlag = 0 THEN last.input.context.apparent_value
    ELSE from_big_endian(SubSeq(last.input.input, ExitPrefix + 1, ExitPrefix + AmountLen))

ExitPromise == last.result.logs[1].data[2]

ExitEvent == last.result.logs[2]

\* C21: an ETH exit's promise targets the engine's own account and its event
\* has sender = context.caller and erc20_address = the all-zero address; an
\* ERC-20 exit's promise targets the token account the reverse map gives for
\* context.caller and its event has sender = erc20_address = context.caller;
\* ExitToNear calls ft_transfer and ExitToEthereum calls withdraw.
C21_TargetsAndEvent ==
    ExitOk =>
        /\ ExitEvent.topics[2] = encode_address(Address(last.input.context.caller))
        /\ IF ExitFlag = 0
           THEN /\ ExitPromise.target_account_id = CurrentAccountId
                /\ ExitEvent.topics[3] = encode_address(ETH_ADDRESS)
           ELSE /\ ExitPromise.target_account_id = Reverse(kv, last.input.context.caller)
                /\ ExitPromise.target_account_id # NoAddr
                /\ ExitEvent.topics[3] = encode_address(Address(last.input.context.caller))
        /\ ExitPromise.method = (IF last.input.precompile = "ExitToNear" THEN "ft_transfer" ELSE "withdraw")

\* C21 witness: an ERC-20 exit to Ethereum by the token contract "e1" was sent
\* to the token account "n1".
C21_Witness ==
    /\ ExitOk /\ ExitFlag = 1
    /\ last.input.precompile = "ExitToEthereum"
    /\ ExitPromise.target_account_id = "n1"
    /\ ExitPromise.method = "withdraw"

RefundPromise ==
    PromiseCreateArgs(CurrentAccountId, "refund_on_error",
                      <<SubSeq(last.input.input, 2, 1 + AddressLen),
                        IF ExitFlag = 0 THEN None ELSE last.input.context.caller,
                        ExitAmount>>,
                      0, REFUND_ON_ERROR_GAS)

\* C22: with error_refund a successful ExitToNear run emits a Callback envelope
\* whose base is the ft_transfer promise and whose callback is refund_on_error
\* on the engine's own account with attached balance 0, carrying the refund
\* address of the input, the ERC-20 address (none for ETH) and the amount, so
\* that the host sees the transfer created and the refund attached to it;
\* without error_refund the envelope is a Create and nothing is attached.
C22_RefundCallback ==
    (ExitOk /\ last.input.precompile = "ExitToNear") =>
        /\ ExitPromise.method = "ft_transfer"
        /\ IF last.input.error_refund
           THEN /\ last.result.logs[1].data = <<1, ExitPromise, RefundPromise>>
                /\ filter_promises_from_logs(<<>>, last.result.logs).handler
                     = <<HostCall("promise_create_call", None, ExitPromise, 0),
                         HostCall("promise_attach_callback", 0, RefundPromise, 1)>>
           ELSE /\ last.result.logs[1].data = <<0, ExitPromise>>
                /\ filter_promises_from_logs(<<>>, last.result.logs).handler
                     = <<HostCall("promise_create_call", None, ExitPromise, 0)>>

\* C22 witness: an ERC-20 exit with a refund address and a non-zero amount.
C22_Witness ==
    /\ ExitOk /\ last.input.precompile = "ExitToNear"
    /\ last.input.error_refund
    /\ ExitFlag = 1 /\ ExitAmount = 1
    /\ last.result.logs[1].data[3] = RefundPromise

----------------------------------------------------------------------------
(* Engine::receive_erc20_tokens (engine.rs 693-820).  A msg is a sequence   *)
(* of characters, "0" and "1" being hex digits and "z" not; the recipient   *)
(* takes 2 * AddressLen characters and the fee 2 * AmountLen.  The result   *)
(* is [io, handler, kind, output, transfer, mint]: kind is "Return" or      *)
(* "Panic", output the sequence of writes to the host output, transfer and  *)
(* mint the status of the two calls ("None" when a call was not made).      *)

MaxMsg == 5

MaxAmount == 2

MsgChars == {"0", "1", "z"}

\* format!("\"{}\"", n), and so also the literal "\"0\"".
Quoted(n) == <<"\"", n, "\"">>

\* hex::decode(chars).is_ok(): an even number of hex digits.
hex_ok(chars) == Len(chars) % 2 = 0 /\ \A i \in 1..Len(chars) : chars[i] \in {"0", "1"}

\* U256::from_big_endian(hex::decode(chars))
RECURSIVE hex_value(_)
hex_value(chars) ==
    IF chars = <<>> THEN 0
    ELSE 16 * hex_value(SubSeq(chars, 1, Len(chars) - 1)) + (IF chars[Len(chars)] = "1" THEN 1 ELSE 0)

\* Address(hex::decode(chars)): the addresses ending in 0 are "a1", the others "a2".
hex_address(chars) == IF chars[Len(chars)] = "0" THEN "a1" ELSE "a2"

get_relayer(io, account_id) ==
    IF io_has(io, bytes_to_key("RelayerEvmAddressMap", account_id))
    THEN io[bytes_to_key("RelayerEvmAddressMap", account_id)]
    ELSE NoAddr

\* current_address(current_account_id): the EVM address of the engine's account.
current_address == "a1"

ReceiveResult(io, handler, kind, output, transfer, mint) ==
    [io |-> io, handler |-> handler, kind |-> kind, output |-> output,
     transfer |-> transfer, mint |-> mint]

\* unwrap_res_or_finish! / assert_or_finish!: write output_on_fail and return.
receive_finish(io, handler, amount, transfer, mint) ==
    ReceiveResult(io, handler, "Return", <<Quoted(amount)>>, transfer, mint)

\* Transfer::transfer: a call from sender with no data.
transfer(io, handler, sender, out) == call(io, handler, sender, out)

\* The and_then closure: the status every failure of which is an error.
mint_status_any(status) == TRUE

mint_status(status) == status = "Succeed"

\* The part of receive_erc20_tokens up to the mint: [done, r], r being the
\* result when done and the state the mint starts from when not.
receive_before_mint(io, handler, token, relayer_account_id, amount, msg, tout) ==
    IF Len(msg) < 2 * AddressLen THEN [done |-> TRUE, r |-> receive_finish(io, handler, amount, "None", "None")]
    ELSE IF ~hex_ok(SubSeq(msg, 1, 2 * AddressLen))
    THEN [done |-> TRUE, r |-> ReceiveResult(io, handler, "Panic", <<>>, "None", "None")]
    ELSE IF Len(msg) > 2 * AddressLen /\ (Len(msg) # 2 * AddressLen + 2 * AmountLen \/ ~hex_ok(SliceFrom(msg, 2 * AddressLen)))
    THEN [done |-> TRUE, r |-> receive_finish(io, handler, amount, "None", "None")]
    ELSE IF ~get_erc20_from_nep141(io, token).ok
    THEN [done |-> TRUE, r |-> receive_finish(io, handler, amount, "None", "None")]
    ELSE IF hex_value(SliceFrom(msg, 2 * AddressLen)) = 0
    THEN [done |-> FALSE, r |-> ReceiveResult(io, handler, "Return", <<>>, "None", "None")]
    ELSE IF get_relayer(io, relayer_account_id) = NoAddr
    THEN [done |-> TRUE, r |-> receive_finish(io, handler, amount, "None", "None")]
    ELSE IF hex_value(SliceFrom(msg, 2 * AddressLen)) > U64Max
    THEN [done |-> TRUE, r |-> ReceiveResult(io, handler, "Panic", <<>>, "None", "None")]
    ELSE LET t == transfer(io, handler, hex_address(SubSeq(msg, 1, 2 * AddressLen)), tout)
         IN IF t.result.kind = "Err"
            THEN [done |-> TRUE, r |-> receive_finish(t.io, t.handler, amount, t.result.err, "None")]
            ELSE [done |-> FALSE, r |-> ReceiveResult(t.io, t.handler, "Return", <<>>, t.result.status, "None")]

\* The mint call and what follows it; pre is the state the mint starts from.
receive_mint(pre, amount, mout) ==
    LET m == call(pre.io, pre.handler, current_address, mout)
    IN IF m.result.kind = "Err"
       THEN receive_finish(m.io, m.handler, amount, pre.transfer, m.result.err)
       ELSE IF mint_status(m.result.status)
       THEN ReceiveResult(m.io, m.handler, "Return", <<Quoted(0)>>, pre.transfer, m.result.status)
       ELSE receive_finish(m.io, m.handler, amount, pre.transfer, m.result.status)

receive_erc20_tokens(io, handler, token, relayer_account_id, amount, msg, tout, mout) ==
    IF receive_before_mint(io, handler, token, relayer_account_id, amount, msg, tout).done
    THEN receive_before_mint(io, handler, token, relayer_account_id, amount, msg, tout).r
    ELSE receive_mint(receive_before_mint(io, handler, token, relayer_account_id, amount, msg, tout).r, amount, mout)

ExecOutcome(exit_reason, values) == [exit_reason |-> exit_reason, used_gas |-> 1, values |-> values, logs |-> <<>>]

\* What the executor may return for the transfer of value from sender to
\* receiver: OutOfFund when the sender has less; else the value moves, or the
\* receiver is a contract that reverts or fails.
TransferOutcomes(io, sender, receiver, value) ==
    IF get_balance(io, sender) < value
    THEN {ExecOutcome(ExitReason("Error", "OutOfFund"), <<CallerEntry(io, sender, 0)>>)}
    ELSE {ExecOutcome(ExitReason("Succeed", ""),
                      IF sender = receiver THEN <<CallerEntry(io, sender, 0)>>
                      ELSE <<CallerEntry(io, sender, value),
                             Modify(receiver, [nonce |-> get_nonce(io, receiver), balance |-> get_balance(io, receiver) + value], NoCode, <<>>, FALSE)>>),
          ExecOutcome(ExitReason("Revert", ""), <<CallerEntry(io, sender, 0)>>),
          ExecOutcome(ExitReason("Error", "StackUnderflow"), <<>>)}

\* What the executor may return for the call of mint by the engine's address.
MintOutcomes(io) ==
    {ExecOutcome(e, <<CallerEntry(io, current_address, 0)>>) : e \in StatusExits \cup {ExitReason("Succeed", "")}}
    \cup {ExecOutcome(e, <<>>) : e \in ErrorExits}

ReceiveArgs(token, relayer_account_id, amount, msg) ==
    [token |-> token, relayer_account_id |-> relayer_account_id, amount |-> amount, msg |-> msg]

\* Whether the run with these arguments reaches the transfer of the fee.
receive_transfers(io, a) ==
    /\ Len(a.msg) = 2 * AddressLen + 2 * AmountLen /\ hex_ok(a.msg)
    /\ get_erc20_from_nep141(io, a.token).ok
    /\ get_relayer(io, a.relayer_account_id) # NoAddr
    /\ hex_value(SliceFrom(a.msg, 2 * AddressLen)) \in 1..U64Max

receive_transfer_outcomes(io, a) ==
    IF receive_transfers(io, a)
    THEN TransferOutcomes(io, hex_address(SubSeq(a.msg, 1, 2 * AddressLen)),
                          get_relayer(io, a.relayer_account_id),
                          hex_value(SliceFrom(a.msg, 2 * AddressLen)))
    ELSE {NoOutcome}

receive_mint_outcomes(io, a, tout) ==
    IF receive_before_mint(io, <<>>, a.token, a.relayer_account_id, a.amount, a.msg, tout).done
    THEN {NoOutcome}
    ELSE MintOutcomes(receive_before_mint(io, <<>>, a.token, a.relayer_account_id, a.amount, a.msg, tout).r.io)

ReceiveReturn(r) ==
    SubmitReturn(r.io, [kind |-> r.kind, output |-> r.output, transfer |-> r.transfer, mint |-> r.mint],
                 r.handler, FALSE, FALSE, GasPaymentResult_default, r.io, r.io)

\* The token "n1" is registered for "e1" and the relayer "r1" for "a2"; the
\* recipient "a1" holds b wei.
InitReceive ==
    /\ kv \in {io_write_storage(BijectionMap_insert(InitStore(b), "n1", "e1"),
                                bytes_to_key("RelayerEvmAddressMap", "r1"), "a2") : b \in 0..MaxBal}
    /\ last = Idle

ReceiveErc20Tokens ==
    /\ last.op = "idle"
    /\ \E a \in {ReceiveArgs(t, r, n, m) : t \in {"n1", "n2"}, r \in {"r1", "r2"}, n \in 0..MaxAmount,
                                           m \in UNION {[1..k -> MsgChars] : k \in 0..MaxMsg}} :
        \E tout \in receive_transfer_outcomes(kv, a) :
          \E mout \in receive_mint_outcomes(kv, a, tout) :
            Invoke("receive_erc20_tokens", a, NoAddr, NoAddr, [transfer |-> tout, mint |-> mout],
                   ReceiveReturn(receive_erc20_tokens(kv, <<>>, a.token, a.relayer_account_id,
                                                      a.amount, a.msg, tout, mout)))

NextReceive == ReceiveErc20Tokens \/ Return

SpecReceive == InitReceive /\ [][NextReceive]_vars

ReceiveRan == last.op = "receive_erc20_tokens"

MsgRecipient == SubSeq(last.input.msg, 1, 2 * AddressLen)

MsgFee == hex_value(SliceFrom(last.input.msg, 2 * AddressLen))

RefundedAll == last.result.kind = "Return" /\ last.result.output = <<Quoted(last.input.amount)>>

\* C23 as stated: for every token account, relayer account, msg, amount and
\* fee, receive_erc20_tokens returns without panicking and writes the host
\* output exactly once: the quoted amount on a failure, "0" on full success.
C23_AsStated ==
    ReceiveRan =>
        /\ last.result.kind = "Return"
        /\ Len(last.result.output) = 1
        /\ last.result.output[1] = (IF last.result.mint = "Succeed" THEN Quoted(0) ELSE Quoted(last.input.amount))

\* What does hold: a run that returns has written the output once, and a run
\* that panics has written nothing.
C23_ReturningRuns ==
    ReceiveRan =>
        IF last.result.kind = "Return"
        THEN last.result.output = <<IF last.result.mint = "Succeed" THEN Quoted(0) ELSE Quoted(last.input.amount)>>
        ELSE last.result.output = <<>>

WrongLength == Len(last.input.msg) \notin {2 * AddressLen, 2 * AddressLen + 2 * AmountLen}

\* C24 as stated: a msg that is neither a recipient nor a recipient followed
\* by a fee is answered by the full amount as refund, and no EVM state is
\* changed: no fee is transferred and mint is not called.
C24_AsStated ==
    (ReceiveRan /\ WrongLength) =>
        /\ RefundedAll
        /\ kv = last.pre
        /\ last.result.transfer = "None" /\ last.result.mint = "None"

\* What does hold: the same, of a msg that is too short or starts with hex digits.
C24_HexRecipient ==
    (ReceiveRan /\ WrongLength /\ (Len(last.input.msg) < 2 * AddressLen \/ hex_ok(MsgRecipient))) =>
        /\ RefundedAll
        /\ kv = last.pre
        /\ last.result.transfer = "None" /\ last.result.mint = "None"

\* The run got as far as the fee: the msg is well formed, states a fee above
\* zero that fits 64 bits, and the token is registered.
FeeDue ==
    /\ Len(last.input.msg) = 2 * AddressLen + 2 * AmountLen /\ hex_ok(last.input.msg)
    /\ MsgFee \in 1..U64Max
    /\ get_erc20_from_nep141(last.pre, last.input.token).ok

\* C25 as stated: with fee > 0 exactly fee wei goes from the recipient to the
\* relayer's address before the mint, and when that transfer fails (relayer
\* not registered, or the recipient holds less than fee and the transfer ends
\* OutOfFund) the full amount is refunded and mint is never called.
C25_AsStated ==
    (ReceiveRan /\ FeeDue) =>
        IF last.result.transfer = "Succeed"
        THEN get_balance(last.io_executed, hex_address(MsgRecipient))
                 = get_balance(last.pre, hex_address(MsgRecipient))
                   - (IF hex_address(MsgRecipient) = "a2" THEN 0 ELSE MsgFee)
        ELSE RefundedAll /\ last.result.mint = "None"

----------------------------------------------------------------------------
(* CallArgs::deserialize (parameters.rs 134-174) over borsh.  A struct is   *)
(* its fields in order: the contract (AddressLen bytes), for V2 the value   *)
(* (AmountLen bytes), and the input as its length (u32, U32Len bytes,       *)
(* little-endian) followed by its bytes.  An enum is a tag byte (0 for V2,  *)
(* 1 for V1) followed by the struct.  try_from_slice fails when bytes are   *)
(* missing or left over.                                                    *)

U32Len == 1

\* u32::to_le_bytes over bytes 0..MaxByte
RECURSIVE to_le_bytes(_, _)
to_le_bytes(n, k) == IF k = 0 THEN <<>> ELSE <<n % (MaxByte + 1)>> \o to_le_bytes(n \div (MaxByte + 1), k - 1)

RECURSIVE from_le_bytes(_)
from_le_bytes(bytes) == IF bytes = <<>> THEN 0 ELSE bytes[1] + (MaxByte + 1) * from_le_bytes(SliceFrom(bytes, 1))

FunctionCallArgs(variant, contract, value, input) == [variant |-> variant, contract |-> contract, value |-> value, input |-> input]

NoCallArgs == FunctionCallArgs("None", <<>>, <<>>, <<>>)

ValueLen(variant) == IF variant = "V2" THEN AmountLen ELSE 0

\* BorshSerialize of FunctionCallArgsV2 / FunctionCallArgsV1
FunctionCallArgs_try_to_vec(x) == x.contract \o x.value \o to_le_bytes(Len(x.input), U32Len) \o x.input

\* BorshDeserialize of FunctionCallArgsV2 / FunctionCallArgsV1: [ok, value]
FunctionCallArgs_try_from_slice(bytes, variant) ==
    IF Len(bytes) < AddressLen + ValueLen(variant) + U32Len
    THEN [ok |-> FALSE, value |-> NoCallArgs]
    ELSE IF from_le_bytes(SubSeq(bytes, AddressLen + ValueLen(variant) + 1, AddressLen + ValueLen(variant) + U32Len)) # Len(bytes) - (AddressLen + ValueLen(variant) + U32Len)
    THEN [ok |-> FALSE, value |-> NoCallArgs]
    ELSE [ok |-> TRUE,
          value |-> FunctionCallArgs(variant, SubSeq(bytes, 1, AddressLen),
                                     SubSeq(bytes, AddressLen + 1, AddressLen + ValueLen(variant)),
                                     SliceFrom(bytes, AddressLen + ValueLen(variant) + U32Len))]

\* BorshSerialize of CallArgs
CallArgs_try_to_vec(x) == <<IF x.variant = "V2" THEN 0 ELSE 1>> \o FunctionCallArgs_try_to_vec(x)

\* BorshDeserialize of CallArgs
CallArgs_try_from_slice(bytes) ==
    IF bytes = <<>> \/ bytes[1] \notin {0, 1} THEN [ok |-> FALSE, value |-> NoCallArgs]
    ELSE FunctionCallArgs_try_from_slice(SliceFrom(bytes, 1), IF bytes[1] = 0 THEN "V2" ELSE "V1")

\* deserialize probing the legacy encoding first.
CallArgs_deserialize_legacy_first(bytes) ==
    IF FunctionCallArgs_try_from_slice(bytes, "V1").ok
    THEN FunctionCallArgs_try_from_slice(bytes, "V1").value
    ELSE CallArgs_try_from_slice(bytes).value

\* CallArgs::deserialize: Some(value), or NoCallArgs for None
CallArgs_deserialize(bytes) ==
    IF CallArgs_try_from_slice(bytes).ok THEN CallArgs_try_from_slice(bytes).value
    ELSE IF FunctionCallArgs_try_from_slice(bytes, "V1").ok
    THEN FunctionCallArgs_try_from_slice(bytes, "V1").value
    ELSE NoCallArgs

InitCallArgs ==
    /\ kv = InitStore(0)
    /\ last = Idle

Deserialize ==
    /\ last.op = "idle"
    /\ \E bytes \in UNION {[1..n -> 0..MaxByte] : n \in 0..(MaxInput + 1)} :
          last' = Last("deserialize", bytes, NoAddr, NoAddr, NoOutcome, kv,
                       SubmitReturn(kv, CallArgs_deserialize(bytes), <<>>, FALSE, FALSE,
                                    GasPaymentResult_default, kv, kv))
    /\ UNCHANGED kv

NextCallArgs == Deserialize \/ Return

SpecCallArgs == InitCallArgs /\ [][NextCallArgs]_vars

Deserialized == last.op = "deserialize"

\* Every value of the variant whose encoding, after a tag of `tag` bytes, is
\* as long as the bytes that were tried.
CallArgsValues(variant, tag) ==
    IF Len(last.input) < tag + AddressLen + ValueLen(variant) + U32Len THEN {}
    ELSE {FunctionCallArgs(variant, c, v, i) :
            c \in [1..AddressLen -> 0..MaxByte], v \in [1..ValueLen(variant) -> 0..MaxByte],
            i \in [1..(Len(last.input) - (tag + AddressLen + ValueLen(variant) + U32Len)) -> 0..MaxByte]}

\* C27 as stated: the bare encoding of every legacy FunctionCallArgsV1 x is
\* deserialized to Some(CallArgs::V1(x)), the contract and input it encoded.
C27_AsStated ==
    Deserialized =>
        \A x \in CallArgsValues("V1", 0) :
            last.input = FunctionCallArgs_try_to_vec(x) => last.result = x

\* C28: the enum encoding is probed first and the legacy one second: the
\* encoding of every CallArgs x gives Some(x); bytes that decode only as a
\* bare FunctionCallArgsV1 y give Some(V1(y)); bytes that decode as neither
\* give None.
C28_DecodeOrder ==
    Deserialized =>
        /\ \A x \in CallArgsValues("V1", 1) \cup CallArgsValues("V2", 1) :
              last.input = CallArgs_try_to_vec(x) => last.result = x
        /\ (~CallArgs_try_from_slice(last.input).ok /\ FunctionCallArgs_try_from_slice(last.input, "V1").ok)
              => last.result = FunctionCallArgs_try_from_slice(last.input, "V1").value
        /\ (~CallArgs_try_from_slice(last.input).ok /\ ~FunctionCallArgs_try_from_slice(last.input, "V1").ok)
              => last.result = NoCallArgs

\* C28 witness: the enum encoding of a V1 value that is also the bare
\* encoding of another V1 value was decoded as the enum.
C28_Witness ==
    /\ Deserialized
    /\ \E x \in CallArgsValues("V1", 1) : last.input = CallArgs_try_to_vec(x) /\ last.result = x
    /\ FunctionCallArgs_try_from_slice(last.input, "V1").ok

\* C29 as stated: the bare encoding of every FunctionCallArgsV2 x is
\* deserialized to None.
C29_AsStated ==
    Deserialized =>
        \A x \in CallArgsValues("V2", 0) :
            last.input = FunctionCallArgs_try_to_vec(x) => last.result = NoCallArgs

----------------------------------------------------------------------------
(* Backend::block_hash (engine.rs 1321-1333) and compute_block_hash         *)
(* (940-953).  The host's block height is a u64, here 0..MaxHeight; the     *)
(* number asked for is a U256 and may lie above every height.               *)

MaxHeight == 258

BLOCK_HASH_PREFIX == 0

BlockHashWindow == 256

\* H256::zero()
H256_zero == H256(<<"zero">>)

\* sha256(prefix || chain_id || account_id || block_height.to_be_bytes())
compute_block_hash(chain_id, block_height, account_id) ==
    H256(<<"sha256", BLOCK_HASH_PREFIX, chain_id, account_id, block_height>>)

\* block_hash with the current block inside the window.
block_hash_inclusive(block_height, number) ==
    IF (IF block_height < BlockHashWindow THEN 0 ELSE block_height - BlockHashWindow) <= number /\ number <= block_height
    THEN compute_block_hash(EngineChainId, number % (MaxHeight + 1), CurrentAccountId)
    ELSE H256_zero

\* block_hash: idx.saturating_sub(256) <= number < idx, number.low_u64()
block_hash(block_height, number) ==
    IF (IF block_height < BlockHashWindow THEN 0 ELSE block_height - BlockHashWindow) <= number /\ number < block_height
    THEN compute_block_hash(EngineChainId, number % (MaxHeight + 1), CurrentAccountId)
    ELSE H256_zero

InitBlocks ==
    /\ kv = InitStore(0)
    /\ last = Idle

BlockHash ==
    /\ last.op = "idle"
    /\ \E block_height \in 0..MaxHeight, number \in 0..(MaxHeight + 2) :
          last' = Last("block_hash", [block_height |-> block_height, number |-> number],
                       NoAddr, NoAddr, NoOutcome, kv,
                       SubmitReturn(kv, block_hash(block_height, number), <<>>, FALSE, FALSE,
                                    GasPaymentResult_default, kv, kv))
    /\ UNCHANGED kv

NextBlocks == BlockHash \/ Return

SpecBlocks == InitBlocks /\ [][NextBlocks]_vars

BlockHashAsked == last.op = "block_hash"

\* The 256 blocks before the current one.
Addressable ==
    /\ last.input.number < last.input.block_height
    /\ last.input.number + BlockHashWindow >= last.input.block_height

----------------------------------------------------------------------------
(* The ECRecover precompile (engine-precompiles/src/secp256k1.rs), built    *)
(* with the `contract` feature: recovery is the host's ecrecover, which     *)
(* answers an address or an error.  A word is WordLen bytes and the input   *)
(* four words: hash, v, r, s.  The result is [kind, err, cost, output,      *)
(* logs, recovery], recovery being the hash and signature handed to the     *)
(* host, or <<>> when the host was not asked.                               *)

WordLen == 2

ECRECOVER_BASE == 3000

INPUT_LEN == 4 * WordLen

Zeros(n) == [i \in 1..n |-> 0]

\* vec![255u8; 32]
Sentinel == [i \in 1..WordLen |-> 255]

\* input.to_vec() followed by input.resize(INPUT_LEN, 0)
resize(input, n) == IF Len(input) >= n THEN SubSeq(input, 1, n) ELSE input \o Zeros(n - Len(input))

ECResult(kind, err, cost, output, recovery) ==
    [kind |-> kind, err |-> err, cost |-> cost, output |-> output, logs |-> <<>>, recovery |-> recovery]

\* The rest of run once v is known to be 27 or 28 under zeros; input is resized.
ecrecover_valid_v(input, recovered) ==
    ECResult("Ok", "", ECRECOVER_BASE,
             IF recovered = <<>> THEN Sentinel ELSE Zeros(WordLen - Len(recovered)) \o recovered,
             <<SubSeq(input, 1, WordLen),
               SubSeq(input, 2 * WordLen + 1, 4 * WordLen) \o <<input[2 * WordLen] - 27>>>>)

\* run taking the low byte of v alone.
ECRecover_run_low_byte(input, target_gas, recovered) ==
    IF target_gas # None /\ ECRECOVER_BASE > target_gas THEN ECResult("Err", "OutOfGas", 0, <<>>, <<>>)
    ELSE IF resize(input, INPUT_LEN)[2 * WordLen] \in {27, 28}
    THEN ecrecover_valid_v(resize(input, INPUT_LEN), recovered)
    ELSE ECResult("Ok", "", ECRECOVER_BASE, Sentinel, <<>>)

\* run refusing a target gas equal to the cost.
ECRecover_run_gas_inclusive(input, target_gas, recovered) ==
    IF target_gas # None /\ ECRECOVER_BASE >= target_gas THEN ECResult("Err", "OutOfGas", 0, <<>>, <<>>)
    ELSE ecrecover_valid_v(resize(input, INPUT_LEN), recovered)

\* ECRecover::run; recovered is the host's answer, <<>> for an error.
ECRecover_run(input, target_gas, recovered) ==
    IF target_gas # None /\ ECRECOVER_BASE > target_gas THEN ECResult("Err", "OutOfGas", 0, <<>>, <<>>)
    ELSE IF /\ resize(input, INPUT_LEN)[2 * WordLen] \in {27, 28}
            /\ SubSeq(resize(input, INPUT_LEN), WordLen + 1, 2 * WordLen - 1) = Zeros(WordLen - 1)
    THEN ecrecover_valid_v(resize(input, INPUT_LEN), recovered)
    ELSE ECResult("Ok", "", ECRECOVER_BASE, Sentinel, <<>>)

\* The inputs: a hash, every v over the bytes 0, 1, 27 and 28, r and s, and a
\* byte more, cut at every length.
ECInputs ==
    {SubSeq(h \o v \o r \o s \o <<1>>, 1, n) :
        h \in {Zeros(WordLen), [i \in 1..WordLen |-> 1]}, v \in [1..WordLen -> {0, 1, 27, 28}],
        r \in {Zeros(WordLen), [i \in 1..WordLen |-> 2]}, s \in {[i \in 1..WordLen |-> 3]},
        n \in 0..(INPUT_LEN + 1)}

\* What the host's ecrecover may answer.
Recovered == {<<>>} \cup [1..AddressLen -> {1, 2}]

InitEC ==
    /\ kv = InitStore(0)
    /\ last = Idle

RunECRecover ==
    /\ last.op = "idle"
    /\ \E input \in ECInputs, recovered \in Recovered :
        \E target_gas \in {None, ECRECOVER_BASE - 1, ECRECOVER_BASE, ECRECOVER_BASE + 1} :
          last' = Last("ecrecover", [input |-> input, target_gas |-> target_gas],
                       NoAddr, NoAddr, NoOutcome, kv,
                       SubmitReturn(kv, ECRecover_run(input, target_gas, recovered), <<>>, FALSE,
                                    FALSE, GasPaymentResult_default, kv, kv))
    /\ UNCHANGED kv

NextEC == RunECRecover \/ Return

SpecEC == InitEC /\ [][NextEC]_vars

ECRan == last.op = "ecrecover"

\* v as the input gives it: bytes 32..64 of the input padded with zeros.
InputV == [i \in 1..WordLen |-> IF WordLen + i <= Len(last.input.input) THEN last.input.input[WordLen + i] ELSE 0]

ValidV == InputV[WordLen] \in {27, 28} /\ \A i \in 1..(WordLen - 1) : InputV[i] = 0

C32_GasAndLength ==
    ECRan =>
        IF last.input.target_gas # None /\ last.input.target_gas < 3000
        THEN last.result.kind = "Err" /\ last.result.err = "OutOfGas"
        ELSE /\ last.result.kind = "Ok"
             /\ last.result.cost = 3000
             /\ last.result.logs = <<>>
             /\ Len(last.result.output) = WordLen

\* C32 witness: an input longer than four words ran with exactly 3000 gas.
C32_Witness ==
    /\ ECRan /\ last.result.kind = "Ok"
    /\ last.input.target_gas = 3000
    /\ Len(last.input.input) > INPUT_LEN
    /\ Len(last.result.output) = WordLen

----------------------------------------------------------------------------
(* Order of the steps within one invocation of the engine (Spec).           *)

\* The run of the executor of the last invocation, with what followed it.
EvmRun ==
    IF last.op = "deploy_code" \/ (last.op = "submit" /\ last.input.to = NoAddr)
    THEN deploy_code(last.io_charged, <<>>, last.origin, last.out)
    ELSE call(last.io_charged, <<>>, last.origin, last.out)

Scheduled == last.op \in {"submit", "call", "deploy_code"} /\ last.ran_evm /\ last.handler # <<>>

Refund(a) ==
    IF a = last.origin /\ last.gas_result.effective_gas_price > 0
    THEN last.gas_result.prepaid_amount
         - last.result.gas_used * last.gas_result.effective_gas_price
    ELSE 0

Reward(a) ==
    IF a = last.relayer /\ last.gas_result.effective_gas_price > 0
    THEN last.result.gas_used * last.gas_result.priority_fee_per_gas
    ELSE 0

Refunded == IsSubmit /\ last.ran_evm /\ last.result.status # "GasPayment"

\* C34: within one submit the state diff is applied before the gas refund: the
\* store the refund starts from is the store apply wrote, and when submit
\* returns every balance is the balance apply left plus the refund (for the
\* sender) plus the reward (for the relayer, who may be the sender); nothing
\* else differs from the store apply left.
C34_RefundAfterApply ==
    Refunded =>
        /\ last.applied => last.io_executed = apply(last.io_charged, last.out.values, TRUE)
        /\ \A a \in Addr :
              get_balance(kv, a) = get_balance(last.io_executed, a) + Refund(a) + Reward(a)
        /\ \A k \in DOMAIN kv \cup DOMAIN last.io_executed :
              k[1] # "Balance" =>
                  /\ k \in DOMAIN kv /\ k \in DOMAIN last.io_executed
                  /\ kv[k] = last.io_executed[k]

C34_Witness ==
    /\ Refunded /\ last.applied
    /\ last.origin = last.relayer
    /\ Refund(last.origin) > 0 /\ Reward(last.origin) > 0
    /\ get_balance(last.io_executed, last.origin) # get_balance(last.io_charged, last.origin)
    /\ get_balance(kv, last.origin) > get_balance(last.io_executed, last.origin)

----------------------------------------------------------------------------
(* apply of one Modify entry (SpecStorage). *)

WasModify == last.op = "apply" /\ AppliedEntry.type = "Modify"

\* The account is empty once the entry's nonce, balance and code are written.
EmptyAfterWrites ==
    /\ AppliedEntry.basic.balance = 0
    /\ AppliedEntry.basic.nonce = 0
    /\ (IF AppliedEntry.code # NoCode THEN Len(AppliedEntry.code)
        ELSE get_code_size(last.pre, "a2")) = 0

\* The store holds neither a nonce nor a balance entry for the account.
Gone(io) ==
    /\ ~io_has(io, address_to_key("Nonce", "a2"))
    /\ ~io_has(io, address_to_key("Balance", "a2"))

\* C35 as stated: whenever a Modify entry writes a non-zero value v to slot k of
\* address a, after that apply the backend's storage(a, k) returns v.
C35_AsStated ==
    WasModify =>
        \A k \in Slots :
            LastWritten(AppliedEntry.storage, k) # 0 =>
                Backend_storage(kv, "a2", k) = LastWritten(AppliedEntry.storage, k)

\* C35, amended: an account is removed by a Modify entry only when delete-empty
\* is requested and the entry leaves it empty; the entry's slot writes do not
\* prevent the removal.  The non-zero value v the entry last wrote to slot k is
\* what storage(a, k) returns afterwards unless the entry ended in the removal,
\* and then the account's generation is one higher and storage(a, k) is zero.
C35_CollectedDespiteWrites ==
    WasModify =>
        /\ Gone(kv) => last.input.delete_empty /\ EmptyAfterWrites
        /\ \A k \in Slots :
              LastWritten(AppliedEntry.storage, k) # 0 =>
                  Backend_storage(kv, "a2", k) =
                      (IF Gone(kv) THEN 0 ELSE LastWritten(AppliedEntry.storage, k))
        /\ Gone(kv) /\ AppliedEntry.storage # <<>> =>
              get_generation(kv, "a2") = OldGen + 1

\* An empty account is removed by an entry that wrote a slot.
C35_Witness ==
    /\ WasModify
    /\ Gone(kv)
    /\ LastWritten(AppliedEntry.storage, 0) = 2
    /\ Backend_storage(kv, "a2", 0) = 0
    /\ get_storage(kv, "a2", 0, OldGen) = 2

\* C36: apply removes the account of a Modify entry (nonce, balance and code
\* entries removed, generation one higher) if and only if delete_empty is set,
\* the account is empty after the entry's writes and the entry did not have
\* reset_storage; with reset_storage an empty account keeps its zero nonce and
\* balance entries and its generation is one higher, not two.
C36_RemovalCondition ==
    WasModify =>
        /\ Gone(kv) <=>
              last.input.delete_empty /\ EmptyAfterWrites /\ ~AppliedEntry.reset_storage
        /\ Gone(kv) =>
              /\ ~io_has(kv, address_to_key("Code", "a2"))
              /\ get_generation(kv, "a2") = OldGen + 1
        /\ AppliedEntry.reset_storage =>
              /\ io_has(kv, address_to_key("Nonce", "a2"))
              /\ io_has(kv, address_to_key("Balance", "a2"))
              /\ get_nonce(kv, "a2") = AppliedEntry.basic.nonce
              /\ get_balance(kv, "a2") = AppliedEntry.basic.balance
              /\ get_generation(kv, "a2") = OldGen + 1
        /\ ~Gone(kv) /\ ~AppliedEntry.reset_storage => get_generation(kv, "a2") = OldGen

\* An account without code, holding a slot in its first generation, is
\* left empty by an entry without reset_storage and is removed.
C36_Witness ==
    /\ WasModify
    /\ last.input.delete_empty
    /\ ~AppliedEntry.reset_storage
    /\ OldGen = 0
    /\ Backend_storage(last.pre, "a2", 0) = 1
    /\ Gone(kv)
    /\ ~io_has(kv, address_to_key("Code", "a2"))
    /\ get_generation(kv, "a2") = OldGen + 1

\* The keys of the store a Modify entry of the account may write or remove.
Named(key) ==
    \/ key = address_to_key("Nonce", "a2")
    \/ key = address_to_key("Balance", "a2")
    \/ key = address_to_key("Code", "a2") /\ AppliedEntry.code # NoCode
    \/ key = address_to_key("Generation", "a2") /\ AppliedEntry.reset_storage
    \/ \E i \in DOMAIN AppliedEntry.storage :
          key = storage_to_key("a2", AppliedEntry.storage[i][1], get_generation(kv, "a2"))

\* C37: after a Modify entry that does not end in the account's removal the
\* nonce and balance are the entry's, the code is the entry's if it carries one
\* and unchanged otherwise, every slot the entry names holds at the resulting
\* generation the value last written to it, a zero value leaving no entry, and
\* every key the entry does not name is unchanged.
C37_ModifyWrites ==
    (WasModify /\ ~Gone(kv)) =>
        /\ io_has(kv, address_to_key("Nonce", "a2"))
        /\ get_nonce(kv, "a2") = AppliedEntry.basic.nonce
        /\ io_has(kv, address_to_key("Balance", "a2"))
        /\ get_balance(kv, "a2") = AppliedEntry.basic.balance
        /\ get_code(kv, "a2") =
              (IF AppliedEntry.code # NoCode THEN AppliedEntry.code
               ELSE get_code(last.pre, "a2"))
        /\ \A i \in DOMAIN AppliedEntry.storage :
              LET index == AppliedEntry.storage[i][1]
                  value == LastWritten(AppliedEntry.storage, index)
                  key == storage_to_key("a2", index, get_generation(kv, "a2"))
              IN /\ Backend_storage(kv, "a2", index) = value
                 /\ io_has(kv, key) <=> value # 0
        /\ \A key \in DOMAIN kv \cup DOMAIN last.pre :
              ~Named(key) =>
                  /\ key \in DOMAIN kv /\ key \in DOMAIN last.pre
                  /\ kv[key] = last.pre[key]

\* An entry without reset_storage and without code removes one slot and writes
\* the other; the account keeps its code and the other address its entries.
C37_Witness ==
    /\ WasModify /\ ~Gone(kv)
    /\ ~AppliedEntry.reset_storage /\ AppliedEntry.code = NoCode
    /\ get_code_size(kv, "a2") > 0
    /\ Backend_storage(last.pre, "a2", 0) = 1 /\ Backend_storage(last.pre, "a2", 1) = 1
    /\ LastWritten(AppliedEntry.storage, 0) = 0 /\ Len(AppliedEntry.storage) = 2
    /\ AppliedEntry.storage[1][1] = 0 /\ AppliedEntry.storage[2][1] = 1
    /\ ~io_has(kv, storage_to_key("a2", 0, OldGen))
    /\ Backend_storage(kv, "a2", 1) = 2
    /\ get_storage(kv, "a1", 0, 0) = 1

----------------------------------------------------------------------------
(* Storage generations across the operations of Spec. *)

\* The entry clears the storage of its account when applied to io with
\* delete_empty: a Delete, a Modify with reset_storage, or a Modify that leaves
\* the account empty.
EntryClears(io, e) ==
    \/ e.type = "Delete"
    \/ e.reset_storage
    \/ /\ e.basic.balance = 0
       /\ e.basic.nonce = 0
       /\ (IF e.code # NoCode THEN Len(e.code) ELSE get_code_size(io, e.address)) = 0

\* The clearing events of address a in the diff of the last invocation, each
\* entry judged on the store the entries before it left.
ClearingEvents(a) ==
    Cardinality({i \in DOMAIN last.out.values :
                    /\ last.out.values[i].address = a
                    /\ EntryClears(apply(last.io_charged,
                                         SubSeq(last.out.values, 1, i - 1), TRUE),
                                   last.out.values[i])})

\* C38: across submit, call and deploy_code the storage generation of every
\* address never decreases, and it rises by exactly one for each clearing event
\* of the applied diff (Modify with reset_storage, Delete, delete-empty
\* removal); an invocation that applies no diff leaves every generation as it
\* was.
C38_GenerationSteps ==
    Invoked =>
        \A a \in Addr :
            /\ get_generation(kv, a) >= get_generation(last.pre, a)
            /\ get_generation(kv, a) =
                  get_generation(last.pre, a)
                  + (IF last.applied THEN ClearingEvents(a) ELSE 0)
            /\ get_generation(last.io_charged, a) = get_generation(last.pre, a)

\* An applied diff touches the empty account a2 without resetting its
\* storage, and the account is removed.
C38_Witness ==
    /\ Invoked /\ last.applied
    /\ \E i \in DOMAIN last.out.values :
          /\ last.out.values[i].type = "Modify"
          /\ ~last.out.values[i].reset_storage
          /\ last.out.values[i].address = "a2"
    /\ get_generation(kv, "a2") = get_generation(last.pre, "a2") + 1
    /\ ClearingEvents("a1") = 0

----------------------------------------------------------------------------
(* Exit logs whose data is no PromiseArgs (SpecLogs). *)

Undecodable(log) ==
    /\ IsExitAddress(log)
    /\ log.topics = <<>>
    /\ ~IsCreateEnvelope(log)
    /\ ~IsCallbackEnvelope(log)

Decodable(log) == ~Undecodable(log)

\* C39: a log of an exit address with empty topics whose data does not
\* deserialize as PromiseArgs is dropped silently: the calls made on the
\* promise handler and the logs returned are those of the same list without
\* such logs, none of them is returned, and the result is no error.
C39_UndecodableDropped ==
    Filtered =>
        /\ last.handler =
              filter_promises_from_logs(<<>>, SelectSeq(last.out.logs, Decodable)).handler
        /\ last.result.logs =
              filter_promises_from_logs(<<>>, SelectSeq(last.out.logs, Decodable)).logs
        /\ last.handler = CallsUpTo(last.out.logs, Len(last.out.logs))
        /\ \A i \in 1..Len(last.out.logs) :
              Undecodable(last.out.logs[i]) =>
                  \A j \in 1..Len(last.result.logs) :
                      ~SameLog(last.result.logs[j], last.out.logs[i])
        /\ last.result.kind = "Ok"

\* An undecodable exit log, then a Create envelope, then an ordinary log.
C39_Witness ==
    /\ Filtered
    /\ Len(last.out.logs) = 3
    /\ Undecodable(last.out.logs[1])
    /\ IsCreateEnvelope(last.out.logs[2])
    /\ ~IsExitAddress(last.out.logs[3])
    /\ Len(last.handler) = 1 /\ last.handler[1].call = "promise_create_call"
    /\ Len(last.result.logs) = 1
    /\ SameLog(last.result.logs[1], last.out.logs[3])

----------------------------------------------------------------------------
(* Engine::view among the operations of Spec. *)

\* Engine::view_with_args: a view call from any sender with gas limit u64::MAX.
View ==
    /\ last.op = "idle"
    /\ \E origin \in Addr : \E contract \in {"a2"} :
        \E out \in ExecOutcomes(kv, origin, contract, U64Max) :
          Invoke("view", Malformed, NoAddr, origin, out,
                 EngineReturn(kv, view(kv, origin, out)))

NextView == Submit \/ Call \/ DeployCode \/ View \/ Return

SpecView == Init /\ [][NextView]_vars

Viewed == last.op = "view"

\* C40: Engine::view and view_with_args leave the store as it was for every
\* input and every outcome of the execution: no nonce is incremented, also
\* when the execution ends in an error, the executor's diff is not applied and
\* no promise is scheduled.
C40_ViewFrame ==
    Viewed =>
        /\ kv = last.pre
        /\ \A a \in Addr : get_nonce(kv, a) = get_nonce(last.pre, a)
        /\ ~last.applied
        /\ last.handler = <<>>
        /\ last.result.kind = "Err" <=> ~into_result(last.out.exit_reason).ok

\* A view call by an account that has sent transactions ends in an error of
\* the executor, on a store that an earlier invocation changed.
C40_Witness ==
    /\ Viewed
    /\ last.result.kind = "Err"
    /\ get_nonce(last.pre, last.origin) > 0
    /\ get_nonce(kv, last.origin) = get_nonce(last.pre, last.origin)

====
